---------------------------- MODULE Spec2Model ----------------------------
(***************************************************************************)
(* Backtester (src/backtester.py): the walk-forward portfolio simulation   *)
(* of run_backtest, its rebalancing engine, its strategy signal providers  *)
(* and the performance reduction of _calculate_performance.                *)
(*                                                                         *)
(* Numbers.  The program computes in binary floating point; the model      *)
(* computes in exact rationals (a record [n, d], d > 0, in lowest terms).  *)
(* Dates.  A date 'YYYY-MM-DD' of the year 2024 is its day of the year     *)
(* (1..366); the string tests the program makes on a date (its day token,  *)
(* its month token, the lexicographic order) are computed from the         *)
(* calendar.  The keys of a price series are dates of the same form.       *)
(***************************************************************************)
EXTENDS Integers, Sequences, FiniteSets, TLC

(***************************************************************************)
(* Exact rational arithmetic                                               *)
(***************************************************************************)
RECURSIVE GCD(_, _)
GCD(a, b) == IF b = 0 THEN a ELSE GCD(b, a % b)

IAbs(x) == IF x < 0 THEN -x ELSE x

Rat(n, d) ==
    LET s == IF d < 0 THEN -1 ELSE 1
        g == GCD(IAbs(n), IAbs(d))
    IN  [n |-> (s * n) \div g, d |-> (s * d) \div g]

R(k) == [n |-> k, d |-> 1]

Zero == R(0)

One == R(1)

RAdd(a, b) ==
    LET g == GCD(a.d, b.d)
    IN  Rat(a.n * (b.d \div g) + b.n * (a.d \div g), (a.d \div g) * b.d)

RNeg(a) == [n |-> -a.n, d |-> a.d]

RSub(a, b) == RAdd(a, RNeg(b))

RMul(a, b) ==
    LET g1 == GCD(IAbs(a.n), b.d)
        g2 == GCD(IAbs(b.n), a.d)
    IN  Rat((a.n \div g1) * (b.n \div g2), (a.d \div g2) * (b.d \div g1))

\* Defined for b # 0 only: callers model the ZeroDivisionError themselves.
RDiv(a, b) == RMul(a, IF b.n < 0 THEN [n |-> -b.d, d |-> -b.n] ELSE [n |-> b.d, d |-> b.n])

RLt(a, b) ==
    LET g == GCD(a.d, b.d)
    IN  a.n * (b.d \div g) < b.n * (a.d \div g)

RLe(a, b) ==
    LET g == GCD(a.d, b.d)
    IN  a.n * (b.d \div g) <= b.n * (a.d \div g)

RAbs(a) == [n |-> IAbs(a.n), d |-> a.d]

RMax(a, b) == IF RLt(a, b) THEN b ELSE a

RMin(a, b) == IF RLt(b, a) THEN b ELSE a

RECURSIVE RSum(_)
RSum(s) == IF s = <<>> THEN Zero ELSE RAdd(Head(s), RSum(Tail(s)))

(***************************************************************************)
(* Sequence helpers                                                        *)
(***************************************************************************)
Range(s) == {s[k] : k \in 1..Len(s)}

(***************************************************************************)
(* Calendar of 2024 (1 January 2024 is a Monday)                           *)
(***************************************************************************)
MonthLengths == <<31, 29, 31, 30, 31, 30, 31, 31, 30, 31, 30, 31>>

\* monthly as every 21st scheduled date, whatever the date is.
ShouldRebalanceByIndex(date, freq, index) ==
    IF index = 0 THEN TRUE
    ELSE IF freq = "monthly" THEN index % 21 = 0
    ELSE IF freq = "weekly" THEN index % 5 = 0
    ELSE FALSE

RECURSIVE DaysBefore(_)
\* Days of the year before the first day of month m.
DaysBefore(m) == IF m = 1 THEN 0 ELSE DaysBefore(m - 1) + MonthLengths[m - 1]

\* The month token of the date string, date[5:7].
MonthOf(date) == CHOOSE m \in 1..12 :
                    DaysBefore(m) < date /\ date <= DaysBefore(m) + MonthLengths[m]

\* The day token of the date string, date[8:10].
DayOf(date) == date - DaysBefore(MonthOf(date))

\* 0 = Monday .. 6 = Sunday.
WeekdayOf(date) == (date - 1) % 7

\* The days from .. to that are not a Saturday or a Sunday, in order.
BusinessDays(from, to) ==
    IF from > to THEN <<>>
    ELSE SelectSeq([k \in 1..(to - from + 1) |-> from + k - 1],
                   LAMBDA d : WeekdayOf(d) < 5)

\* pd.date_range(start, end, freq='B'), formatted; freq is not used.
_generate_dates(start, end, freq) == BusinessDays(start, end)

\* monthly as the first scheduled business day of the month: the 1st, or the
\* Monday that follows a 1st on a Saturday or a Sunday.
ShouldRebalanceFirstBusinessDay(date, freq, index) ==
    IF index = 0 THEN TRUE
    ELSE IF freq = "monthly"
         THEN DayOf(date) = 1 \/ (WeekdayOf(date) = 0 /\ DayOf(date) \in {2, 3})
    ELSE IF freq = "weekly" THEN index % 5 = 0
    ELSE IF freq = "quarterly" THEN DayOf(date) = 1 /\ MonthOf(date) \in {1, 4, 7, 10}
    ELSE FALSE

\* index is the 0-based position of date in the scheduled dates.
_should_rebalance(date, freq, index) ==
    IF index = 0 THEN TRUE
    ELSE IF freq = "monthly" THEN DayOf(date) = 1
    ELSE IF freq = "weekly" THEN index % 5 = 0
    ELSE IF freq = "quarterly" THEN DayOf(date) = 1 /\ MonthOf(date) \in {1, 4, 7, 10}
    ELSE FALSE


(***************************************************************************)
(* HistoricalPriceStore: price_data is a function ticker -> series, a      *)
(* series a function date -> price; a ticker whose fetch failed or came    *)
(* back empty is not in its domain.                                        *)
(***************************************************************************)
\* The key of the series closest to date, before it or after it.
NearestDate(data, date) ==
    CHOOSE d \in DOMAIN data :
        \A e \in DOMAIN data : IAbs(e - date) >= IAbs(d - date)

\* The latest key of the series at or before date (the reversed scan).
NearestPrevious(data, date) ==
    CHOOSE d \in DOMAIN data :
        d <= date /\ \A e \in DOMAIN data : e <= date => e <= d

_get_prices_on_date(pdata, date) ==
    [t \in {u \in DOMAIN pdata : \E d \in DOMAIN pdata[u] : d <= date} |->
        IF date \in DOMAIN pdata[t] THEN pdata[t][date]
        ELSE pdata[t][NearestPrevious(pdata[t], date)]]

(***************************************************************************)
(* portfolio['positions']: an insertion-ordered dict ticker -> shares, as  *)
(* a sequence of [ticker, shares].                                         *)
(***************************************************************************)
Keys(pos) == [k \in 1..Len(pos) |-> pos[k].ticker]

Held(pos, t) == \E k \in 1..Len(pos) : pos[k].ticker = t

\* positions.get(t, 0)
SharesOf(pos, t) ==
    IF Held(pos, t) THEN pos[CHOOSE k \in 1..Len(pos) : pos[k].ticker = t].shares
    ELSE Zero

\* positions[t] = s: in place for a held ticker, appended otherwise.
SetShares(pos, t, s) ==
    IF Held(pos, t)
    THEN [k \in 1..Len(pos) |-> IF pos[k].ticker = t THEN [ticker |-> t, shares |-> s]
                                ELSE pos[k]]
    ELSE Append(pos, [ticker |-> t, shares |-> s])

RECURSIVE DelShares(_, _)
\* del positions[t]
DelShares(pos, t) ==
    IF pos = <<>> THEN <<>>
    ELSE IF Head(pos).ticker = t THEN Tail(pos)
         ELSE <<Head(pos)>> \o DelShares(Tail(pos), t)

RECURSIVE PositionsValue(_, _)
\* The sum of shares x price over the held tickers that have a price.
PositionsValue(pos, prices) ==
    IF pos = <<>> THEN Zero
    ELSE RAdd(IF Head(pos).ticker \in DOMAIN prices
              THEN RMul(Head(pos).shares, prices[Head(pos).ticker])
              ELSE Zero,
              PositionsValue(Tail(pos), prices))

\* A valuation that counts every held share at its price and forgets the cash.
ValueWithoutCash(pcash, pos, prices) == PositionsValue(pos, prices)

_calculate_portfolio_value(pcash, pos, prices) == RAdd(pcash, PositionsValue(pos, prices))

RECURSIVE _get_position_details(_, _)
_get_position_details(pos, prices) ==
    IF pos = <<>> THEN <<>>
    ELSE (IF Head(pos).ticker \in DOMAIN prices
          THEN <<[ticker |-> Head(pos).ticker,
                  shares |-> Head(pos).shares,
                  value  |-> RMul(Head(pos).shares, prices[Head(pos).ticker])]>>
          ELSE <<>>)
         \o _get_position_details(Tail(pos), prices)

(***************************************************************************)
(* StrategySignalProvider: a signal map is an insertion-ordered dict, a    *)
(* sequence of [ticker, signal, weight].                                   *)
(***************************************************************************)
RECURSIVE Weights(_)
Weights(sigs) == IF sigs = <<>> THEN <<>> ELSE <<Head(sigs).weight>> \o Weights(Tail(sigs))

\* The closing step of the three computed variants: each weight divided by
\* the total, only when the total is positive.
Normalize(sigs) ==
    LET total == RSum(Weights(sigs))
    IN  IF RLt(Zero, total)
        THEN [k \in 1..Len(sigs) |-> [sigs[k] EXCEPT !.weight = RDiv(@, total)]]
        ELSE sigs

\* strategy == "equal_weight"
EqualWeightSignals(tks) ==
    [k \in 1..Len(tks) |->
        [ticker |-> tks[k], signal |-> "neutral", weight |-> Rat(1, Len(tks))]]

NeutralWeight == Rat(5, 100)

\* One outcome of AIHedgeFundAdvanced.analyze: a consensus [signal,
\* confidence], or signal = "error" when the call raised.
AiWeight(res) ==
    IF res.signal = "error" THEN NeutralWeight
    ELSE IF res.signal = "bullish"
         THEN RAdd(Rat(15, 100), RMul(Rat(res.confidence, 100), Rat(10, 100)))
    ELSE IF res.signal = "neutral" THEN NeutralWeight
    ELSE Zero

AiTickerCap == 5

\* A signal map that analyses every ticker of the universe.
AiSignalsUncapped(tks, analysis) ==
    Normalize([k \in 1..Len(tks) |->
        [ticker |-> tks[k],
         signal |-> IF analysis[tks[k]].signal = "error" THEN "neutral"
                    ELSE analysis[tks[k]].signal,
         weight |-> AiWeight(analysis[tks[k]])]])

\* analysis: ticker -> outcome of analyze for that ticker.
_get_ai_signals(tks, analysis) ==
    LET first == SubSeq(tks, 1, IF Len(tks) < AiTickerCap THEN Len(tks) ELSE AiTickerCap)
    IN  Normalize([k \in 1..Len(first) |->
            [ticker |-> first[k],
             signal |-> IF analysis[first[k]].signal = "error" THEN "neutral"
                        ELSE analysis[first[k]].signal,
             weight |-> AiWeight(analysis[first[k]])]])

DefaultPE == 100

DefaultPB == 10

BullishPE == 15

\* data.get('pe_ratio', 0) or 100: None, a missing key and 0 all give the
\* default; an absent ratio is written 0.
OrDefault(x, dflt) == IF x = 0 THEN dflt ELSE x

\* 1/(pe + 1) or 1/(pb + 1) raises ZeroDivisionError.
ValueRaises(f) ==
    OrDefault(f.pe, DefaultPE) + 1 = 0 \/ OrDefault(f.pb, DefaultPB) + 1 = 0

ValueScore(f) ==
    RAdd(RMul(Rat(1, OrDefault(f.pe, DefaultPE) + 1), Rat(1, 2)),
         RMul(Rat(1, OrDefault(f.pb, DefaultPB) + 1), Rat(1, 2)))

\* fund: ticker -> [pe, pb], what get_comprehensive_data returned for it.
_get_value_signals(tks, fund) ==
    Normalize([k \in 1..Len(tks) |->
        IF ValueRaises(fund[tks[k]])
        THEN [ticker |-> tks[k], signal |-> "neutral", weight |-> NeutralWeight]
        ELSE [ticker |-> tks[k],
              signal |-> IF OrDefault(fund[tks[k]].pe, DefaultPE) < BullishPE
                         THEN "bullish" ELSE "neutral",
              weight |-> ValueScore(fund[tks[k]])]])

MinHistory == 60

Lookback3m == 63

Lookback6m == 126

\* sorted(prices.keys())
\* The days of S in ascending order: every day from the least to the
\* greatest, those that are not in S left out.
SortedKeys(S) ==
    IF S = {} THEN <<>>
    ELSE LET lo == CHOOSE x \in S : \A y \in S : x <= y
             hi == CHOOSE x \in S : \A y \in S : y <= x
         IN  SelectSeq([k \in 1..(hi - lo + 1) |-> lo + k - 1], LAMBDA d : d \in S)

\* The 0-based position the momentum lookup starts from: dates.index(date)
\* when date is a key, else the last position.
CurrentIdx(ds, date) ==
    IF \E k \in 1..Len(ds) : ds[k] = date
    THEN (CHOOSE k \in 1..Len(ds) : ds[k] = date) - 1
    ELSE Len(ds) - 1

\* A Python list subscript ds[j] for a 0-based j that may be negative:
\* j < 0 counts from the end; outside -len..len-1 it raises IndexError.
PyIndexRaises(ds, j) == j >= Len(ds) \/ j < -Len(ds)

PyIndex(ds, j) == IF j >= 0 THEN ds[j + 1] ELSE ds[Len(ds) + j + 1]

\* Whether the ticker gets a momentum signal at all (the three 'continue's).
MomentumEligible(pdata, t, date) ==
    /\ t \in DOMAIN pdata
    /\ Cardinality(DOMAIN pdata[t]) >= MinHistory
    /\ CurrentIdx(SortedKeys(DOMAIN pdata[t]), date) >= MinHistory

\* The lookups of an eligible ticker raise IndexError (not caught).
MomentumRaises(pdata, t, date) ==
    LET ds == SortedKeys(DOMAIN pdata[t])
        ci == CurrentIdx(ds, date)
    IN  PyIndexRaises(ds, ci - Lookback3m) \/ PyIndexRaises(ds, ci - Lookback6m)

MomentumScore(pdata, t, date) ==
    LET ds == SortedKeys(DOMAIN pdata[t])
        ci == CurrentIdx(ds, date)
        current_price == pdata[t][PyIndex(ds, ci)]
        price_3m == pdata[t][PyIndex(ds, ci - Lookback3m)]
        price_6m == pdata[t][PyIndex(ds, ci - Lookback6m)]
        ret_3m == RDiv(RSub(current_price, price_3m), price_3m)
        ret_6m == RDiv(RSub(current_price, price_6m), price_6m)
    IN  RAdd(RMul(ret_3m, Rat(6, 10)), RMul(ret_6m, Rat(4, 10)))

RECURSIVE MomentumRaw(_, _, _)
MomentumRaw(pdata, tks, date) ==
    IF tks = <<>> THEN <<>>
    ELSE (IF MomentumEligible(pdata, Head(tks), date)
          THEN LET m == MomentumScore(pdata, Head(tks), date)
               IN  <<[ticker |-> Head(tks),
                      signal |-> IF RLt(Rat(5, 100), m) THEN "bullish"
                                 ELSE IF RLt(m, Rat(-5, 100)) THEN "bearish"
                                 ELSE "neutral",
                      weight |-> RMax(Zero, RAdd(m, Rat(1, 10)))]>>
          ELSE <<>>)
         \o MomentumRaw(pdata, Tail(tks), date)

\* Some eligible ticker's lookup raises: the call (and the run) aborts.
MomentumSignalsRaise(pdata, tks, date) ==
    \E k \in 1..Len(tks) :
        MomentumEligible(pdata, tks[k], date) /\ MomentumRaises(pdata, tks[k], date)

_get_momentum_signals(pdata, tks, date) == Normalize(MomentumRaw(pdata, tks, date))

(***************************************************************************)
(* TradeExecutionEngine: _rebalance_portfolio.  The state threaded through *)
(* its two loops is st = [cash, pos, trades, legs]: the portfolio, the     *)
(* trades emitted so far and, for each ticker a loop reached, one leg      *)
(* record [ticker, kind, amount, cost, cash] (cash: the cash after it).    *)
(***************************************************************************)
Materiality == Rat(1, 100)

Dust == Rat(1, 1000)

\* A target allocation that also keeps the signals of weight 0.
RECURSIVE TargetAllocationsAnyWeight(_, _)
TargetAllocationsAnyWeight(sigs, prices) ==
    IF sigs = <<>> THEN <<>>
    ELSE (IF RLe(Zero, Head(sigs).weight) /\ Head(sigs).ticker \in DOMAIN prices
          THEN <<[ticker |-> Head(sigs).ticker, weight |-> Head(sigs).weight]>>
          ELSE <<>>)
         \o TargetAllocationsAnyWeight(Tail(sigs), prices)

\* {ticker: weight} of the signals with a positive weight and a price.
RECURSIVE TargetAllocations(_, _)
TargetAllocations(sigs, prices) ==
    IF sigs = <<>> THEN <<>>
    ELSE (IF RLt(Zero, Head(sigs).weight) /\ Head(sigs).ticker \in DOMAIN prices
          THEN <<[ticker |-> Head(sigs).ticker, weight |-> Head(sigs).weight]>>
          ELSE <<>>)
         \o TargetAllocations(Tail(sigs), prices)

Leg(t, kind, amount, cost, cashAfter) ==
    [ticker |-> t, kind |-> kind, amount |-> amount, cost |-> cost, cash |-> cashAfter]

MkTrade(date, t, action, shares, price, value, commission, reason) ==
    [date |-> date, ticker |-> t, action |-> action, shares |-> shares,
     price |-> price, value |-> value, commission |-> commission, reason |-> reason]

\* One iteration of the exit loop for held ticker t.
ExitLeg(st, t, targets, prices, rate, date) ==
    IF t \notin {targets[k].ticker : k \in 1..Len(targets)} /\ t \in DOMAIN prices
    THEN LET shares == SharesOf(st.pos, t)
             price == prices[t]
             value == RMul(shares, price)
             commission == RMul(value, rate)
             newCash == RAdd(st.cash, RSub(value, commission))
         IN  [cash |-> newCash,
              pos |-> DelShares(st.pos, t),
              trades |-> Append(st.trades,
                  MkTrade(date, t, "SELL", shares, price, value, commission,
                          "Not in target allocation")),
              legs |-> Append(st.legs, Leg(t, "EXIT", value, commission, newCash))]
    ELSE st

RECURSIVE ExitPass(_, _, _, _, _, _)
\* keys: list(portfolio['positions'].keys()) taken before the loop.
ExitPass(st, keys, targets, prices, rate, date) ==
    IF keys = <<>> THEN st
    ELSE CHOOSE r \in {ExitPass(nxt, Tail(keys), targets, prices, rate, date) :
                         nxt \in {ExitLeg(st, Head(keys), targets, prices, rate, date)}} :
                    TRUE

\* A rebalance pass without the materiality threshold.
AlwaysMaterial(value_diff, total_value) == TRUE

\* A threshold that trades a difference of exactly 1 %.
MaterialAtThreshold(value_diff, total_value) ==
    RLe(RMul(total_value, Materiality), RAbs(value_diff))

\* abs(value_diff) > total_value * 0.01
Material(value_diff, total_value) ==
    RLt(RMul(total_value, Materiality), RAbs(value_diff))

\* A buy check that forgets the commission.
CanAffordWithoutCommission(pcash, value_diff, commission) == RLe(value_diff, pcash)

\* portfolio['cash'] >= value_diff + commission
\* The buy is affordable only with cash to spare.
CanAffordStrictly(pcash, value_diff, commission) ==
    RLt(RAdd(value_diff, commission), pcash)

CanAfford(pcash, value_diff, commission) == RLe(RAdd(value_diff, commission), pcash)

\* One iteration of the second loop, for target tg = [ticker, weight].
TargetLeg(st, tg, total_value, prices, rate, date) ==
    LET t == tg.ticker
        target_value == RMul(total_value, tg.weight)
        current_shares == SharesOf(st.pos, t)
        price == prices[t]
        current_value == RMul(current_shares, price)
        value_diff == RSub(target_value, current_value)
        adiff == RAbs(value_diff)
        commission == RMul(adiff, rate)
        shares_delta == RDiv(adiff, price)
    IN  IF t \notin DOMAIN prices THEN st
        ELSE IF ~Material(value_diff, total_value)
        THEN [st EXCEPT !.legs = Append(@, Leg(t, "SKIP", adiff, Zero, st.cash))]
        ELSE IF RLt(Zero, value_diff)
        THEN IF CanAfford(st.cash, value_diff, commission)
             THEN LET newCash == RSub(st.cash, RAdd(value_diff, commission))
                  IN  [cash |-> newCash,
                       pos |-> SetShares(st.pos, t, RAdd(current_shares, shares_delta)),
                       trades |-> Append(st.trades,
                           MkTrade(date, t, "BUY", shares_delta, price, value_diff,
                                   commission, "Target weight")),
                       legs |-> Append(st.legs,
                           Leg(t, "BUY", value_diff, commission, newCash))]
             ELSE [st EXCEPT !.legs =
                       Append(@, Leg(t, "BUY_REJECTED", value_diff, commission, st.cash))]
        ELSE IF RLe(shares_delta, current_shares)
             THEN LET left == RSub(current_shares, shares_delta)
                      newCash == RAdd(st.cash, RSub(adiff, commission))
                  IN  [cash |-> newCash,
                       pos |-> IF RLt(left, Dust) THEN DelShares(st.pos, t)
                               ELSE SetShares(st.pos, t, left),
                       trades |-> Append(st.trades,
                           MkTrade(date, t, "SELL", shares_delta, price, adiff,
                                   commission, "Rebalancing")),
                       legs |-> Append(st.legs, Leg(t, "SELL", adiff, commission, newCash))]
             ELSE [st EXCEPT !.legs =
                       Append(@, Leg(t, "SELL_REJECTED", adiff, commission, st.cash))]

\* A second loop that ends at the first buy it cannot afford.
RECURSIVE TargetPassUntilRejected(_, _, _, _, _, _)
TargetPassUntilRejected(st, targets, total_value, prices, rate, date) ==
    IF targets = <<>> THEN st
    ELSE LET nxt == TargetLeg(st, Head(targets), total_value, prices, rate, date)
         IN  IF nxt.legs # st.legs /\ nxt.legs[Len(nxt.legs)].kind = "BUY_REJECTED"
             THEN nxt
             ELSE TargetPassUntilRejected(nxt, Tail(targets), total_value, prices,
                                          rate, date)

RECURSIVE TargetPass(_, _, _, _, _, _)
\* for ticker, target_weight in target_allocations.items(): an iteration is
\* complete (nxt is a value) before the next one starts.
TargetPass(st, targets, total_value, prices, rate, date) ==
    IF targets = <<>> THEN st
    ELSE CHOOSE r \in {TargetPass(nxt, Tail(targets), total_value, prices, rate, date) :
                         nxt \in {TargetLeg(st, Head(targets), total_value, prices,
                                             rate, date)}} : TRUE

\* The portfolio after the call, the trades it returns and its legs.
_rebalance_portfolio(pcash, pos, sigs, prices, rate, date) ==
    LET total_value == RAdd(pcash, PositionsValue(pos, prices))
        targets == TargetAllocations(sigs, prices)
        st0 == [cash |-> pcash, pos |-> pos, trades |-> <<>>, legs |-> <<>>]
        st1 == ExitPass(st0, Keys(pos), targets, prices, rate, date)
    IN  TargetPass(st1, targets, total_value, prices, rate, date)

(***************************************************************************)
(* PerformanceAnalyzer: _calculate_performance, the metrics that are       *)
(* rational functions of the equity curve and the trade log.               *)
(***************************************************************************)
Values(curve) == [k \in 1..Len(curve) |-> curve[k].total_value]

\* The division (values[i] - values[i-1]) / values[i-1] by zero.
DailyReturnsRaise(values) == \E k \in 1..(Len(values) - 1) : values[k] = Zero

DailyReturns(values) ==
    [k \in 1..(Len(values) - 1) |->
        RDiv(RSub(values[k + 1], values[k]), values[k])]

\* A float that is no rational: a square root, or a quotient by one.
Irrational == [n |-> 0, d |-> 0]

\* np.std(daily_returns) * np.sqrt(252) if daily_returns else 0.  The value
\* is 0 when there is no return or the returns are all equal (their
\* deviation from the mean is 0), and a positive square root otherwise.
Volatility(rs) ==
    IF rs = <<>> \/ \A k \in 1..Len(rs) : rs[k] = rs[1] THEN Zero ELSE Irrational

\* (annualized_return - 0.04) / volatility if volatility > 0 else 0
Sharpe(volatility) == IF volatility = Zero THEN Zero ELSE Irrational

\* [1 + r for r in np.cumsum(daily_returns)] if daily_returns else [1]
RECURSIVE CumSum(_, _)
CumSum(rs, acc) ==
    IF rs = <<>> THEN <<>>
    ELSE <<RAdd(acc, Head(rs))>> \o CumSum(Tail(rs), RAdd(acc, Head(rs)))

Cumulative(rs) ==
    IF rs = <<>> THEN <<One>>
    ELSE [k \in 1..Len(rs) |-> RAdd(One, CumSum(rs, Zero)[k])]

\* np.maximum.accumulate(cumulative)
RECURSIVE RunningMax(_, _)
RunningMax(cs, k) == IF k = 1 THEN cs[1] ELSE RMax(RunningMax(cs, k - 1), cs[k])

\* (c - m) / m for every point; a zero running maximum gives numpy's nan or
\* -inf (no exception), written here as the point's own value.
Drawdowns(cs) ==
    [k \in 1..Len(cs) |->
        LET m == RunningMax(cs, k)
        IN  IF m = Zero THEN cs[k] ELSE RDiv(RSub(cs[k], m), m)]

RECURSIVE MinOf(_)
MinOf(s) == IF Len(s) = 1 THEN s[1] ELSE RMin(s[1], MinOf(Tail(s)))

MaxDrawdown(values) == MinOf(Drawdowns(Cumulative(DailyReturns(values))))

Sells(trs) == SelectSeq(trs, LAMBDA t : t.action = "SELL")

Buys(trs) == SelectSeq(trs, LAMBDA t : t.action = "BUY")

Winning(trs) ==
    SelectSeq(trs, LAMBDA t : t.action = "SELL"
        /\ RLt(RMul(RMul(t.shares, t.price), Rat(99, 100)), t.value))

\* len(winning_trades) / len(sell trades) if trades else 0: a non-empty log
\* without a SELL divides by zero.
WinRateRaises(trs) == trs # <<>> /\ Sells(trs) = <<>>

WinRate(trs) == IF trs = <<>> THEN Zero ELSE Rat(Len(Winning(trs)), Len(Sells(trs)))

TradeValues(trs) == [k \in 1..Len(trs) |-> trs[k].value]

ProfitFactor(trs) ==
    LET gross_profit == RSum(TradeValues(Sells(trs)))
        gross_loss == RSum(TradeValues(Buys(trs)))
    IN  IF RLt(Zero, gross_loss) THEN RDiv(gross_profit, gross_loss) ELSE Zero

\* The exception the call ends with, "" when it returns.
PerformanceError(curve, trs) ==
    IF curve = <<>> THEN "ValueError"
    ELSE IF DailyReturnsRaise(Values(curve)) THEN "ZeroDivisionError"
    ELSE IF WinRateRaises(trs) THEN "ZeroDivisionError"
    ELSE ""

_calculate_performance(curve, trs, capital, strat) ==
    LET values == Values(curve)
        final_value == values[Len(values)]
    IN  [strategy_name |-> strat,
         start_date |-> curve[1].date,
         end_date |-> curve[Len(curve)].date,
         initial_capital |-> capital,
         final_value |-> final_value,
         total_return |-> RDiv(RSub(final_value, capital), capital),
         volatility |-> Volatility(DailyReturns(values)),
         sharpe_ratio |-> Sharpe(Volatility(DailyReturns(values))),
         max_drawdown |-> MaxDrawdown(values),
         win_rate |-> WinRate(trs),
         profit_factor |-> ProfitFactor(trs),
         num_trades |-> Len(trs)]

(***************************************************************************)
(* run_backtest as a state machine.  pc: "fetch" (the price data is        *)
(* fetched), "loop" (before the iteration of date i, 1-based here, the     *)
(* program's index is i - 1), "returned", "raised".                        *)
(***************************************************************************)
VARIABLES
    tickers,          \* the universe, in the caller's order
    strategy,
    rebalance_freq,
    initial_capital,  \* Backtester.initial_capital
    commission,       \* Backtester.commission
    price_data,       \* what _fetch_historical_data returned
    provider,         \* what the fundamentals / consensus collaborator answers
    dates,            \* _generate_dates(start_date, end_date, rebalance_freq)
    pc,
    i,
    cash,             \* portfolio['cash']
    positions,        \* portfolio['positions']
    trades,
    equity_curve,
    rebalances,       \* one record per call of _rebalance_portfolio
    error,            \* the exception run_backtest raised, "" if none
    result            \* the BacktestResult, <<>> until it is returned

vars == <<tickers, strategy, rebalance_freq, initial_capital, commission, price_data,
          provider, dates, pc, i, cash, positions, trades, equity_curve, rebalances,
          error, result>>

config == <<tickers, strategy, rebalance_freq, initial_capital, commission, price_data,
            provider, dates>>

\* An evaluation of the scheduler on its own: the dates of _generate_dates
\* and the flag of _should_rebalance for each of them by index, twice for the
\* same arguments.
VARIABLES
    sch_start,        \* the arguments
    sch_end,
    sch_freq,
    sch_env,          \* what the scheduler is not given: prices, portfolio
    sch_pc,           \* "idle", "generate", "flag", "done"
    sch_dates,        \* what _generate_dates returned
    sch_index,        \* the next index of the enumeration
    sch_flags,        \* what _should_rebalance returned for the dates before it
    sch_runs          \* the finished evaluations: dates, flags, env of each

schedVars == <<sch_start, sch_end, sch_freq, sch_env, sch_pc, sch_dates, sch_index,
               sch_flags, sch_runs>>

\* No evaluation of the scheduler on its own.
SchedIdle ==
    /\ sch_start = 0 /\ sch_end = 0 /\ sch_freq = "" /\ sch_env = <<>>
    /\ sch_pc = "idle"
    /\ sch_dates = <<>> /\ sch_index = 0 /\ sch_flags = <<>> /\ sch_runs = <<>>

\* A call of PortfolioOptimizer.build_portfolio.
VARIABLES
    opt_tickers,      \* the arguments
    opt_risk,
    opt_max,
    opt_min,
    opt_outcome,      \* ticker -> what analyze and the data fetches answer
    opt_pc,           \* "idle", "analyze", "assets", "returned", "raised"
    opt_k,            \* the ticker of the analysis loop, 1-based
    opt_analyses,
    opt_weights,      \* what _optimize_weights returned
    opt_qualified,
    opt_error,
    opt_result        \* the PortfolioAnalysis, <<>> until it is returned

optVars == <<opt_tickers, opt_risk, opt_max, opt_min, opt_outcome, opt_pc, opt_k,
             opt_analyses, opt_weights, opt_qualified, opt_error, opt_result>>

\* No call of build_portfolio.
OptIdle ==
    /\ opt_tickers = <<>> /\ opt_risk = "" /\ opt_max = Zero /\ opt_min = Zero
    /\ opt_outcome = <<>>
    /\ opt_pc = "idle" /\ opt_k = 0
    /\ opt_analyses = <<>> /\ opt_weights = <<>> /\ opt_qualified = <<>>
    /\ opt_error = "" /\ opt_result = <<>>

\* A call of AIHedgeFundAdvanced._run_subagents.
VARIABLES
    fan_pc,           \* "idle", "submit", "collect", "returned", "consensus"
    fan_task,         \* persona -> "queued", "running", "done"
    fan_future,       \* persona -> the AgentSignal of its future, <<>> until done
    fan_yielded,      \* the personas whose future as_completed has yielded
    fan_signals       \* the list signals

fanVars == <<fan_pc, fan_task, fan_future, fan_yielded, fan_signals>>

\* No call of _run_subagents.
FanIdle ==
    /\ fan_pc = "idle"
    /\ fan_task = <<>> /\ fan_future = <<>>
    /\ fan_yielded = {} /\ fan_signals = <<>>

\* A call of one method on its own, as a unit test makes it.
VARIABLES
    call_pc,          \* "idle", "call", "returned", "raised"
    call_args,        \* the arguments, by parameter name
    call_result       \* what the call returned, <<>> until it returns

callVars == <<call_pc, call_args, call_result>>

\* No such call.
CallIdle == call_pc = "idle" /\ call_args = <<>> /\ call_result = <<>>

\* The variables the steps of run_backtest leave alone.
outsideBacktest == <<schedVars, optVars, fanVars, callVars>>

\* The variables the steps of the scheduler leave alone.
outsideScheduler == <<vars, optVars, fanVars, callVars>>

\* The variables the steps of build_portfolio leave alone.
outsideOptimizer == <<vars, schedVars, fanVars, callVars>>

\* The variables the steps of _run_subagents leave alone.
outsideFanout == <<vars, schedVars, optVars, callVars>>

\* The variables a call of one method leaves alone.
outsideCall == <<vars, schedVars, optVars, fanVars>>

(***************************************************************************)
(* The inputs of a run                                                     *)
(***************************************************************************)
\* Calendar days of the simulated window.
SpanDays == 8

\* First days of the window: Mon 22 Jan, Fri 26 Jan and Tue 26 Mar 2024.
Starts == {22, 26, 86}

Universes == {<<"A">>, <<"A", "B">>}

Strategies == {"ai_consensus", "equal_weight", "momentum", "value"}

Frequencies == {"weekly", "monthly", "quarterly"}

\* (initial_capital, commission): 100 at 0 or 10 %; for the equal-weight
\* strategy also the defaults of the Backtester, 100,000 at 0.1 %, on a
\* single ticker and 10,000 at 0 on two (which keeps the products within
\* TLC's 32-bit integers).
Money(strat, tks) ==
    {[capital |-> R(100), rate |-> Zero], [capital |-> R(100), rate |-> Rat(1, 10)]}
    \cup (IF strat = "equal_weight" /\ Len(tks) = 1
          THEN {[capital |-> R(100000), rate |-> Rat(1, 1000)]}
          ELSE {})
    \cup (IF strat = "equal_weight" /\ Len(tks) = 2
          THEN {[capital |-> R(10000), rate |-> Zero]}
          ELSE {})

\* The close of a ticker on the j-th scheduled date (0-based) of the window.
PathPrice(path, j) ==
    IF path = "flat" THEN R(100)
    ELSE IF path = "half" THEN R(50)
    ELSE IF path = "drop" THEN (IF j = 0 THEN R(5) ELSE IF j = 1 THEN R(2) ELSE R(1))
    ELSE (IF j = 0 THEN R(1) ELSE IF j = 1 THEN R(2) ELSE R(5))

\* A series quotes from its first date on; a late series also lacks date 3.
SeriesOf(path, late, ds) ==
    [d \in {ds[k] : k \in {j \in 1..Len(ds) : IF late THEN j >= 2 /\ j # 4 ELSE TRUE}} |->
        PathPrice(path, (CHOOSE k \in 1..Len(ds) : ds[k] = d) - 1)]

\* A series whose only quote is dated after the last scheduled date.
SeriesAfter(ds) == [d \in {ds[Len(ds)] + 1} |-> R(100)]

\* The series a ticker may have; <<>> stands for a failed or empty fetch.
SeriesChoices(t, ds) ==
    {<<>>} \cup (IF t = "A"
                 THEN {SeriesOf(path, late, ds) :
                          path \in {"flat", "drop", "rise"}, late \in BOOLEAN}
                      \cup {SeriesAfter(ds)}
                 ELSE {SeriesOf("flat", FALSE, ds), SeriesOf("half", FALSE, ds)})

\* _fetch_historical_data: the tickers with a non-empty history.
PriceStores(tks, ds) ==
    {[t \in {u \in Range(tks) : f[u] # <<>>} |-> f[t]] :
        f \in {g \in [Range(tks) -> UNION {SeriesChoices(t, ds) : t \in Range(tks)}] :
                  \A t \in Range(tks) : g[t] \in SeriesChoices(t, ds)}}

\* pe_ratio and pb_ratio of get_comprehensive_data (0: absent or None).
NoRatios == [pe |-> 0, pb |-> 0]

Fundamentals == {NoRatios, [pe |-> 1, pb |-> 1], [pe |-> 1, pb |-> -2], [pe |-> -1, pb |-> 1]}

\* The answers for a universe.  The score of NoRatios is 56/1111; it is mixed
\* with no other score, which keeps the products of two rebalances within
\* TLC's 32-bit integers.
FundamentalsFor(tks) ==
    {f \in [Range(tks) -> Fundamentals] :
        (\E t \in Range(tks) : f[t] = NoRatios) => (\A t \in Range(tks) : f[t] = NoRatios)}

\* Outcomes of AIHedgeFundAdvanced.analyze.
Analyses == {[signal |-> "bullish", confidence |-> 50],
             [signal |-> "bearish", confidence |-> 50],
             [signal |-> "error", confidence |-> 0]}

Providers(tks, strat) ==
    IF strat = "value" THEN FundamentalsFor(tks)
    ELSE IF strat = "ai_consensus" THEN [Range(tks) -> Analyses]
    ELSE {<<>>}

Init ==
    /\ tickers \in Universes
    /\ strategy \in Strategies
    /\ rebalance_freq \in Frequencies
    /\ \E m \in Money(strategy, tickers) : initial_capital = m.capital /\ commission = m.rate
    /\ \E start \in Starts :
          dates = _generate_dates(start, start + SpanDays - 1, rebalance_freq)
    /\ price_data \in PriceStores(tickers, dates)
    /\ provider \in Providers(tickers, strategy)
    /\ pc = "fetch"
    /\ i = 1
    /\ cash = initial_capital
    /\ positions = <<>>
    /\ trades = <<>>
    /\ equity_curve = <<>>
    /\ rebalances = <<>>
    /\ error = ""
    /\ result = <<>>
    /\ SchedIdle
    /\ OptIdle
    /\ FanIdle
    /\ CallIdle

(***************************************************************************)
(* The steps of run_backtest                                               *)
(***************************************************************************)
\* if not price_data: raise ValueError
FetchFailed ==
    /\ pc = "fetch"
    /\ DOMAIN price_data = {}
    /\ pc' = "raised"
    /\ error' = "ValueError"
    /\ UNCHANGED <<config, i, cash, positions, trades, equity_curve, rebalances, result>>
    /\ UNCHANGED outsideBacktest

FetchOk ==
    /\ pc = "fetch"
    /\ DOMAIN price_data # {}
    /\ pc' = "loop"
    /\ UNCHANGED <<config, i, cash, positions, trades, equity_curve, rebalances, error,
                   result>>
    /\ UNCHANGED outsideBacktest

Snapshot(date, prices) ==
    LET portfolio_value == _calculate_portfolio_value(cash, positions, prices)
    IN  [date |-> date,
         cash |-> cash,
         positions |-> _get_position_details(positions, prices),
         total_value |-> portfolio_value,
         cumulative_return |->
             RDiv(RSub(portfolio_value, initial_capital), initial_capital)]

\* The dispatch on strategy at a rebalance date.
StrategySignals(date) ==
    IF strategy = "ai_consensus" THEN _get_ai_signals(tickers, provider)
    ELSE IF strategy = "equal_weight" THEN EqualWeightSignals(tickers)
    ELSE IF strategy = "momentum" THEN _get_momentum_signals(price_data, tickers, date)
    ELSE IF strategy = "value" THEN _get_value_signals(tickers, provider)
    ELSE <<>>

\* The strategy call raises out of run_backtest.
StrategyRaises(date) ==
    strategy = "momentum" /\ MomentumSignalsRaise(price_data, tickers, date)

\* No ticker has a price at or before the date: continue.
SkipDate ==
    /\ pc = "loop"
    /\ i <= Len(dates)
    /\ DOMAIN _get_prices_on_date(price_data, dates[i]) = {}
    /\ i' = i + 1
    /\ UNCHANGED <<config, pc, cash, positions, trades, equity_curve, rebalances, error,
                   result>>
    /\ UNCHANGED outsideBacktest

\* A date with prices that is not a rebalance date: the snapshot only.
SnapshotDate ==
    /\ pc = "loop"
    /\ i <= Len(dates)
    /\ LET prices == _get_prices_on_date(price_data, dates[i])
       IN  /\ DOMAIN prices # {}
           /\ ~_should_rebalance(dates[i], rebalance_freq, i - 1)
           /\ equity_curve' = Append(equity_curve, Snapshot(dates[i], prices))
    /\ i' = i + 1
    /\ UNCHANGED <<config, pc, cash, positions, trades, rebalances, error, result>>
    /\ UNCHANGED outsideBacktest

\* A rebalance date on which the snapshot is recorded after the rebalance.
RebalanceThenSnapshot ==
    /\ pc = "loop"
    /\ i <= Len(dates)
    /\ LET date == dates[i]
           prices == _get_prices_on_date(price_data, date)
       IN  /\ DOMAIN prices # {}
           /\ _should_rebalance(date, rebalance_freq, i - 1)
           /\ IF StrategyRaises(date)
              THEN /\ pc' = "raised"
                   /\ error' = "IndexError"
                   /\ UNCHANGED <<i, cash, positions, trades, rebalances, equity_curve>>
              ELSE LET signals == StrategySignals(date)
                       st == _rebalance_portfolio(cash, positions, signals, prices,
                                                  commission, date)
                       portfolio_value ==
                           _calculate_portfolio_value(st.cash, st.pos, prices)
                   IN  /\ cash' = st.cash
                       /\ positions' = st.pos
                       /\ trades' = trades \o st.trades
                       /\ equity_curve' = Append(equity_curve,
                             [date |-> date,
                              cash |-> st.cash,
                              positions |-> _get_position_details(st.pos, prices),
                              total_value |-> portfolio_value,
                              cumulative_return |->
                                  RDiv(RSub(portfolio_value, initial_capital),
                                       initial_capital)])
                       /\ rebalances' = Append(rebalances,
                             [index |-> i - 1,
                              date |-> date,
                              signals |-> signals,
                              targets |-> TargetAllocations(signals, prices),
                              prices |-> prices,
                              cash_before |-> cash,
                              positions_before |-> positions,
                              legs |-> st.legs,
                              trades |-> st.trades,
                              cash_after |-> st.cash,
                              positions_after |-> st.pos])
                       /\ i' = i + 1
                       /\ UNCHANGED <<pc, error>>
    /\ UNCHANGED <<config, result>>
    /\ UNCHANGED outsideBacktest

\* A rebalance date with prices: the snapshot, the signals, the rebalance.
RebalanceDate ==
    /\ pc = "loop"
    /\ i <= Len(dates)
    /\ LET date == dates[i]
           prices == _get_prices_on_date(price_data, date)
       IN  /\ DOMAIN prices # {}
           /\ _should_rebalance(date, rebalance_freq, i - 1)
           /\ equity_curve' = Append(equity_curve, Snapshot(date, prices))
           /\ IF StrategyRaises(date)
              THEN /\ pc' = "raised"
                   /\ error' = "IndexError"
                   /\ UNCHANGED <<i, cash, positions, trades, rebalances>>
              ELSE LET signals == StrategySignals(date)
                       st == _rebalance_portfolio(cash, positions, signals, prices,
                                                  commission, date)
                   IN  /\ cash' = st.cash
                       /\ positions' = st.pos
                       /\ trades' = trades \o st.trades
                       /\ rebalances' = Append(rebalances,
                             [index |-> i - 1,
                              date |-> date,
                              signals |-> signals,
                              targets |-> TargetAllocations(signals, prices),
                              prices |-> prices,
                              cash_before |-> cash,
                              positions_before |-> positions,
                              legs |-> st.legs,
                              trades |-> st.trades,
                              cash_after |-> st.cash,
                              positions_after |-> st.pos])
                       /\ i' = i + 1
                       /\ UNCHANGED <<pc, error>>
    /\ UNCHANGED <<config, result>>
    /\ UNCHANGED outsideBacktest

\* The end of a run that returns on an empty equity curve.
ReturnEmpty ==
    /\ pc = "loop"
    /\ i > Len(dates)
    /\ equity_curve = <<>>
    /\ pc' = "returned"
    /\ UNCHANGED <<config, i, cash, positions, trades, equity_curve, rebalances, error,
                   result>>
    /\ UNCHANGED outsideBacktest

\* After the loop: _calculate_performance returns the result or raises.
Finish ==
    /\ pc = "loop"
    /\ i > Len(dates)
    /\ LET err == PerformanceError(equity_curve, trades)
       IN  IF err # ""
           THEN /\ pc' = "raised"
                /\ error' = err
                /\ UNCHANGED result
           ELSE /\ pc' = "returned"
                /\ result' = _calculate_performance(equity_curve, trades,
                                                    initial_capital, strategy)
                /\ UNCHANGED error
    /\ UNCHANGED <<config, i, cash, positions, trades, equity_curve, rebalances>>
    /\ UNCHANGED outsideBacktest

Next ==
    \/ FetchFailed
    \/ FetchOk
    \/ SkipDate
    \/ SnapshotDate
    \/ RebalanceDate
    \/ Finish

Spec == Init /\ [][Next]_vars

\* No run of run_backtest.
BacktestIdle ==
    /\ tickers = <<>> /\ strategy = "" /\ rebalance_freq = ""
    /\ initial_capital = Zero /\ commission = Zero
    /\ price_data = <<>> /\ provider = <<>> /\ dates = <<>>
    /\ pc = "idle" /\ i = 0
    /\ cash = Zero /\ positions = <<>> /\ trades = <<>> /\ equity_curve = <<>>
    /\ rebalances = <<>> /\ error = "" /\ result = <<>>

(***************************************************************************)
(* The scheduler on its own: dates = _generate_dates(start, end, freq),    *)
(* then _should_rebalance(date, freq, i) for i, date in enumerate(dates),  *)
(* as the loop of run_backtest calls them.                                 *)
(***************************************************************************)
\* First and last days of the windows: 1 Jan, 6 Jan (a Saturday), 26 Jan,
\* 1 Mar, 29 May, 1 Jun (a Saturday); 14 Jan (a Sunday), 31 Mar, 2 Apr,
\* 4 Jun 2024.
SchedStarts == {1, 6, 26, 61, 150, 153}

SchedEnds == {14, 91, 93, 156}

\* What an evaluation is not given: whether the date has prices, the cash.
SchedEnvs == {[priced |-> TRUE, cash |-> R(100)], [priced |-> FALSE, cash |-> Zero]}

SchedInit ==
    /\ sch_start \in SchedStarts
    /\ sch_end \in SchedEnds
    /\ sch_freq \in Frequencies
    /\ sch_env \in SchedEnvs
    /\ sch_pc = "generate"
    /\ sch_dates = <<>>
    /\ sch_index = 0
    /\ sch_flags = <<>>
    /\ sch_runs = <<>>
    /\ BacktestIdle
    /\ OptIdle
    /\ FanIdle
    /\ CallIdle

\* A trigger that also asks whether the date has prices.
TriggerWhenPriced(date, freq, index) ==
    sch_env.priced /\ _should_rebalance(date, freq, index)

\* The call of _should_rebalance in the loop of run_backtest.
SchedTrigger(date, freq, index) == _should_rebalance(date, freq, index)

SchedGenerate ==
    /\ sch_pc = "generate"
    /\ sch_dates' = _generate_dates(sch_start, sch_end, sch_freq)
    /\ sch_index' = 0
    /\ sch_flags' = <<>>
    /\ sch_pc' = "flag"
    /\ UNCHANGED <<sch_start, sch_end, sch_freq, sch_env, sch_runs>>
    /\ UNCHANGED outsideScheduler

SchedFlag ==
    /\ sch_pc = "flag"
    /\ sch_index < Len(sch_dates)
    /\ sch_flags' = Append(sch_flags,
                           SchedTrigger(sch_dates[sch_index + 1], sch_freq, sch_index))
    /\ sch_index' = sch_index + 1
    /\ UNCHANGED <<sch_start, sch_end, sch_freq, sch_env, sch_pc, sch_dates, sch_runs>>
    /\ UNCHANGED outsideScheduler

\* The enumeration is over; the same arguments are evaluated a second time,
\* whatever the prices and the portfolio are by then.
SchedReturn ==
    /\ sch_pc = "flag"
    /\ sch_index = Len(sch_dates)
    /\ sch_runs' = Append(sch_runs,
                         [dates |-> sch_dates, flags |-> sch_flags, env |-> sch_env])
    /\ IF sch_runs = <<>>
       THEN /\ sch_pc' = "generate"
            /\ sch_env' \in SchedEnvs
       ELSE /\ sch_pc' = "done"
            /\ UNCHANGED sch_env
    /\ UNCHANGED <<sch_start, sch_end, sch_freq, sch_dates, sch_index, sch_flags>>
    /\ UNCHANGED outsideScheduler

SchedNext ==
    \/ SchedGenerate
    \/ SchedFlag
    \/ SchedReturn

SchedulerSpec == SchedInit /\ [][SchedNext]_schedVars

(***************************************************************************)
(* PortfolioOptimizer: build_portfolio and _optimize_weights               *)
(***************************************************************************)
\* Expected annual return from the signal, blended with the history.
_estimate_return(analysis, historical) ==
    LET base_return ==
            IF analysis.signal = "bullish"
            THEN RAdd(Rat(12, 100), RMul(Rat(analysis.confidence, 100), Rat(8, 100)))
            ELSE IF analysis.signal = "neutral"
            THEN RAdd(Rat(6, 100), RMul(Rat(analysis.confidence, 100), Rat(4, 100)))
            ELSE Rat(-5, 100)
    IN  IF historical.available
        THEN RAdd(RMul(Rat(6, 10), base_return),
                  RMul(Rat(4, 10), historical.annual_return))
        ELSE base_return

\* a["volatility"] = a["historical"]["volatility"] if a["historical"] else 0.30
AssetVolatility(historical) ==
    IF historical.available THEN historical.volatility ELSE Rat(30, 100)

\* weights / weights.sum()
Renormalize(ws) == [k \in 1..Len(ws) |-> RDiv(ws[k], RSum(ws))]

RECURSIVE MaxOf(_)
MaxOf(s) == IF Len(s) = 1 THEN s[1] ELSE RMax(s[1], MaxOf(Tail(s)))

\* np.clip(w, lo, hi)
Clip(w, lo, hi) == RMin(RMax(w, lo), hi)

\* The constraints and the renormalization that follows them.
ClipAndRenormalize(ws, lo, hi) ==
    Renormalize([k \in 1..Len(ws) |-> Clip(ws[k], lo, hi)])

\* target_risk selects a risk_multiplier that the weights do not use.
_optimize_weights(assets, target_risk, max_position, min_position) ==
    LET n == Len(assets)
        returns == [k \in 1..n |-> assets[k].expected_return]
        vols == [k \in 1..n |-> assets[k].volatility]
        inv_vols == [k \in 1..n |-> RDiv(One, RAdd(vols[k], Rat(1, 100)))]
        byVol == Renormalize(inv_vols)
        return_adjustment ==
            [k \in 1..n |->
                RDiv(RSub(returns[k], MinOf(returns)),
                     RAdd(RSub(MaxOf(returns), MinOf(returns)), Rat(1, 1000)))]
        adjusted == Renormalize([k \in 1..n |-> RMul(byVol[k], RAdd(One, return_adjustment[k]))])
    IN  ClipAndRenormalize(adjusted, min_position, max_position)

\* The longest list of candidate tickers.
OptMaxTickers == 3

OptNames == <<"A", "B", "C", "D", "E">>

OptUniverses == {SubSeq(OptNames, 1, n) : n \in 1..OptMaxTickers}

\* No two years of history: _get_historical_returns returns None.
NoHistory == [available |-> FALSE, annual_return |-> Zero, volatility |-> Zero]

\* What the analysis of a ticker answers: analyze raises ("error"), or the
\* consensus and the history of the ticker.
OptOutcomes ==
    {[signal |-> "error", confidence |-> 0, historical |-> NoHistory],
     [signal |-> "bullish", confidence |-> 50, historical |-> NoHistory],
     [signal |-> "bearish", confidence |-> 50, historical |-> NoHistory],
     [signal |-> "neutral", confidence |-> 50,
      historical |-> [available |-> TRUE, annual_return |-> Rat(10, 100),
                      volatility |-> Rat(19, 100)]]}

\* (min_position, max_position): the defaults 2 % and 20 %, and two others.
OptLimits ==
    {[min |-> Rat(2, 100), max |-> Rat(20, 100)],
     [min |-> Rat(2, 100), max |-> Rat(60, 100)],
     [min |-> Rat(40, 100), max |-> Rat(50, 100)]}

OptInit ==
    /\ opt_tickers \in OptUniverses
    /\ opt_risk \in {"moderate", "aggressive"}
    /\ \E l \in OptLimits : opt_min = l.min /\ opt_max = l.max
    /\ opt_outcome \in [Range(opt_tickers) -> OptOutcomes]
    /\ opt_pc = "analyze"
    /\ opt_k = 1
    /\ opt_analyses = <<>>
    /\ opt_weights = <<>>
    /\ opt_qualified = <<>>
    /\ opt_error = ""
    /\ opt_result = <<>>
    /\ BacktestIdle
    /\ SchedIdle
    /\ FanIdle
    /\ CallIdle

\* The analysis of a ticker raises and the exception goes up to the caller.
OptAnalyzeAborts ==
    /\ opt_pc = "analyze"
    /\ opt_k <= Len(opt_tickers)
    /\ opt_outcome[opt_tickers[opt_k]].signal = "error"
    /\ opt_pc' = "raised"
    /\ opt_error' = "ValueError"
    /\ UNCHANGED <<opt_tickers, opt_risk, opt_max, opt_min, opt_outcome, opt_k,
                   opt_analyses, opt_weights, opt_qualified, opt_result>>
    /\ UNCHANGED outsideOptimizer

\* The analysis of a ticker raises: except Exception, the next ticker.
OptAnalyzeFailed ==
    /\ opt_pc = "analyze"
    /\ opt_k <= Len(opt_tickers)
    /\ opt_outcome[opt_tickers[opt_k]].signal = "error"
    /\ opt_k' = opt_k + 1
    /\ UNCHANGED <<opt_tickers, opt_risk, opt_max, opt_min, opt_outcome, opt_pc,
                   opt_analyses, opt_weights, opt_qualified, opt_error, opt_result>>
    /\ UNCHANGED outsideOptimizer

OptAnalyzeOk ==
    /\ opt_pc = "analyze"
    /\ opt_k <= Len(opt_tickers)
    /\ LET o == opt_outcome[opt_tickers[opt_k]]
       IN  /\ o.signal # "error"
           /\ opt_analyses' = Append(opt_analyses,
                 [ticker |-> opt_tickers[opt_k],
                  result |-> [signal |-> o.signal, confidence |-> o.confidence],
                  historical |-> o.historical])
    /\ opt_k' = opt_k + 1
    /\ UNCHANGED <<opt_tickers, opt_risk, opt_max, opt_min, opt_outcome, opt_pc,
                   opt_weights, opt_qualified, opt_error, opt_result>>
    /\ UNCHANGED outsideOptimizer

\* if len(analyses) < 2: raise ValueError
OptInsufficient ==
    /\ opt_pc = "analyze"
    /\ opt_k > Len(opt_tickers)
    /\ Len(opt_analyses) < 2
    /\ opt_pc' = "raised"
    /\ opt_error' = "ValueError"
    /\ UNCHANGED <<opt_tickers, opt_risk, opt_max, opt_min, opt_outcome, opt_k,
                   opt_analyses, opt_weights, opt_qualified, opt_result>>
    /\ UNCHANGED outsideOptimizer

\* Steps 2 and 3: the analyses that are not bearish (all of them, up to 10,
\* when fewer than 2 are not), with expected return and volatility.
Qualified(analyses) ==
    LET keep == SelectSeq(analyses, LAMBDA a : a.result.signal # "bearish")
        chosen == IF Len(keep) < 2
                  THEN SubSeq(analyses, 1, IF Len(analyses) < 10 THEN Len(analyses) ELSE 10)
                  ELSE keep
    IN  [k \in 1..Len(chosen) |->
            [ticker |-> chosen[k].ticker,
             result |-> chosen[k].result,
             historical |-> chosen[k].historical,
             expected_return |-> _estimate_return(chosen[k].result, chosen[k].historical),
             volatility |-> AssetVolatility(chosen[k].historical)]]

\* Steps 2 to 4: the qualified analyses and their weights.
OptOptimize ==
    /\ opt_pc = "analyze"
    /\ opt_k > Len(opt_tickers)
    /\ Len(opt_analyses) >= 2
    /\ opt_qualified' = Qualified(opt_analyses)
    /\ opt_weights' = _optimize_weights(Qualified(opt_analyses), opt_risk, opt_max, opt_min)
    /\ opt_pc' = "assets"
    /\ UNCHANGED <<opt_tickers, opt_risk, opt_max, opt_min, opt_outcome, opt_k,
                   opt_analyses, opt_error, opt_result>>
    /\ UNCHANGED outsideOptimizer

\* Step 5: the assets whose weight is >= min_position.
PortfolioAssets(qualified, weights, min_position) ==
    LET idx == SelectSeq([k \in 1..Len(qualified) |-> k],
                         LAMBDA k : RLe(min_position, weights[k]))
    IN  [j \in 1..Len(idx) |->
            [ticker |-> qualified[idx[j]].ticker,
             weight |-> weights[idx[j]],
             signal |-> qualified[idx[j]].result.signal,
             confidence |-> qualified[idx[j]].result.confidence,
             expected_return |-> qualified[idx[j]].expected_return,
             volatility |-> qualified[idx[j]].volatility]]

\* The metrics that are rational in the weights; _generate_recommendations
\* takes max() of the sector weights, which raises when there is no asset.
_calculate_portfolio_metrics(assets, target_risk) ==
    [assets |-> assets,
     total_expected_return |->
         RSum([k \in 1..Len(assets) |-> RMul(assets[k].weight, assets[k].expected_return)]),
     rebalancing_needed |->
         \E k \in 1..Len(assets) :
             \/ RLt(Rat(15, 100), assets[k].weight)
             \/ RLt(assets[k].weight, Rat(3, 100))
             \/ assets[k].signal = "bearish"]

\* Steps 5 and 6: the assets and the metrics, returned.
OptReturn ==
    /\ opt_pc = "assets"
    /\ LET assets == PortfolioAssets(opt_qualified, opt_weights, opt_min)
       IN  IF assets = <<>>
           THEN /\ opt_pc' = "raised"
                /\ opt_error' = "ValueError"
                /\ UNCHANGED opt_result
           ELSE /\ opt_pc' = "returned"
                /\ opt_result' = _calculate_portfolio_metrics(assets, opt_risk)
                /\ UNCHANGED opt_error
    /\ UNCHANGED <<opt_tickers, opt_risk, opt_max, opt_min, opt_outcome, opt_k,
                   opt_analyses, opt_weights, opt_qualified>>
    /\ UNCHANGED outsideOptimizer

OptNext ==
    \/ OptAnalyzeFailed
    \/ OptAnalyzeOk
    \/ OptInsufficient
    \/ OptOptimize
    \/ OptReturn

OptimizerSpec == OptInit /\ [][OptNext]_optVars

(***************************************************************************)
(* The persona fan-out: _run_subagents submits one spawn_agent task per    *)
(* entry of INVESTMENT_AGENTS to a ThreadPoolExecutor and collects the     *)
(* futures with as_completed.  A persona is its index in INVESTMENT_AGENTS.*)
(***************************************************************************)
\* The personas of the model (INVESTMENT_AGENTS configures 8).
NumPersonas == 5

Personas == 1..NumPersonas

\* ThreadPoolExecutor(max_workers=4)
MaxWorkers == 4

\* How the call of a persona ends: a JSON answer with signal bullish, a JSON
\* answer whose signal is none of bullish / bearish / neutral, a non-zero
\* return code (RuntimeError), the timeout of subprocess.run.
FanOutcomes == {"bullish", "hold", "error", "timeout"}

AgentSignal(agent_name, signal, confidence, reasoning) ==
    [agent_name |-> agent_name, signal |-> signal, confidence |-> confidence,
     reasoning |-> reasoning]

\* What the task of a persona returns; it raises nothing.
spawn_agent(agent_name, outcome) ==
    IF outcome \in {"error", "timeout"}
    THEN AgentSignal(agent_name, "neutral", 50, "Failed")
    ELSE AgentSignal(agent_name, outcome, 80, "answer")

\* The body of the as_completed loop for one future: the signal is appended,
\* then the lookup of its emoji raises KeyError for a signal outside the
\* three, and the handler appends a neutral signal of the persona.
Collected(agent_name, signal) ==
    IF signal.signal \in {"bullish", "bearish", "neutral"}
    THEN <<signal>>
    ELSE <<signal, AgentSignal(agent_name, "neutral", 50, "Error")>>

FanInit ==
    /\ fan_pc = "submit"
    /\ fan_task = <<>>
    /\ fan_future = <<>>
    /\ fan_yielded = {}
    /\ fan_signals = <<>>
    /\ BacktestIdle
    /\ SchedIdle
    /\ OptIdle
    /\ CallIdle

\* executor.submit for every persona, in the order of INVESTMENT_AGENTS.
FanSubmit ==
    /\ fan_pc = "submit"
    /\ fan_task' = [p \in Personas |-> "queued"]
    /\ fan_future' = [p \in Personas |-> <<>>]
    /\ fan_pc' = "collect"
    /\ UNCHANGED <<fan_yielded, fan_signals>>
    /\ UNCHANGED outsideFanout

Running == {p \in Personas : fan_task[p] = "running"}

\* A worker takes a task only when no other task runs.
FanStartAlone(p) ==
    /\ fan_pc = "collect"
    /\ fan_task[p] = "queued"
    /\ \A q \in Personas : fan_task[q] = "queued" => p <= q
    /\ Running = {}
    /\ fan_task' = [fan_task EXCEPT ![p] = "running"]
    /\ UNCHANGED <<fan_pc, fan_future, fan_yielded, fan_signals>>
    /\ UNCHANGED outsideFanout

\* A free worker of the pool takes the task at the head of the queue.
FanStart(p) ==
    /\ fan_pc = "collect"
    /\ fan_task[p] = "queued"
    /\ \A q \in Personas : fan_task[q] = "queued" => p <= q
    /\ Cardinality(Running) < MaxWorkers
    /\ fan_task' = [fan_task EXCEPT ![p] = "running"]
    /\ UNCHANGED <<fan_pc, fan_future, fan_yielded, fan_signals>>
    /\ UNCHANGED outsideFanout

\* The call of a persona ends, one way or another; its future is done.
FanFinish(p) ==
    /\ fan_pc = "collect"
    /\ fan_task[p] = "running"
    /\ \E outcome \in FanOutcomes :
          fan_future' = [fan_future EXCEPT ![p] = spawn_agent(p, outcome)]
    /\ fan_task' = [fan_task EXCEPT ![p] = "done"]
    /\ UNCHANGED <<fan_pc, fan_yielded, fan_signals>>
    /\ UNCHANGED outsideFanout

\* as_completed yields a future that is done; the loop body handles it.
FanCollect(p) ==
    /\ fan_pc = "collect"
    /\ fan_task[p] = "done"
    /\ p \notin fan_yielded
    /\ fan_yielded' = fan_yielded \cup {p}
    /\ fan_signals' = fan_signals \o Collected(p, fan_future[p])
    /\ UNCHANGED <<fan_pc, fan_task, fan_future>>
    /\ UNCHANGED outsideFanout

\* Every future was yielded: the executor is shut down, signals returned.
FanReturn ==
    /\ fan_pc = "collect"
    /\ fan_yielded = Personas
    /\ fan_pc' = "returned"
    /\ UNCHANGED <<fan_task, fan_future, fan_yielded, fan_signals>>
    /\ UNCHANGED outsideFanout

\* analyze passes the signals to _generate_consensus.
FanConsensus ==
    /\ fan_pc = "returned"
    /\ fan_pc' = "consensus"
    /\ UNCHANGED <<fan_task, fan_future, fan_yielded, fan_signals>>
    /\ UNCHANGED outsideFanout

FanNext ==
    \/ FanSubmit
    \/ \E p \in Personas : FanStart(p)
    \/ \E p \in Personas : FanFinish(p)
    \/ \E p \in Personas : FanCollect(p)
    \/ FanReturn
    \/ FanConsensus

FanoutSpec == FanInit /\ [][FanNext]_fanVars

\* The threads are scheduled: the main thread and the workers each take the
\* step they can take.  The call of every persona but the first ends (it
\* returns, fails or is killed by the timeout of subprocess.run); the call of
\* the first persona is the slow one, which may go on for any length of time.
FanoutFairSpec ==
    /\ FanInit
    /\ [][FanNext]_fanVars
    /\ WF_fanVars(FanSubmit)
    /\ \A p \in Personas : WF_fanVars(FanStart(p))
    /\ \A p \in Personas \ {1} : WF_fanVars(FanFinish(p))
    /\ \A p \in Personas : WF_fanVars(FanCollect(p))
    /\ WF_fanVars(FanReturn)
    /\ WF_fanVars(FanConsensus)

(***************************************************************************)
(* _rebalance_portfolio on its own: one call on a portfolio, a signal map  *)
(* and the prices of a date.                                               *)
(***************************************************************************)
\* portfolio['positions']: nothing, one ticker (one share, 0.99 of a share,
\* a thousandth of a share) or two, in either insertion order.
RebPositions ==
    {<<>>,
     <<[ticker |-> "A", shares |-> One]>>,
     <<[ticker |-> "A", shares |-> Rat(99, 100)]>>,
     <<[ticker |-> "A", shares |-> Rat(1, 1000)]>>,
     <<[ticker |-> "B", shares |-> One]>>,
     <<[ticker |-> "A", shares |-> One], [ticker |-> "B", shares |-> One]>>,
     <<[ticker |-> "B", shares |-> One], [ticker |-> "A", shares |-> One]>>}

\* prices: A unpriced, at 100 or at 100,000; B unpriced or at 50.
RebPrices ==
    {[t \in {u \in {"A", "B"} : f[u] # Zero} |-> f[t]] :
        f \in {g \in [{"A", "B"} -> {Zero, R(50), R(100), R(100000)}] :
                  g["A"] # R(50) /\ g["B"] \in {Zero, R(50)}}}

\* signals: A absent or at weight 0, 1 %, 1/2 or 1; B absent or at weight 0
\* or 1/2; the weights sum to 1 at most.
RebSignals ==
    {(IF wa = R(-1) THEN <<>>
      ELSE <<[ticker |-> "A", signal |-> "neutral", weight |-> wa]>>)
     \o (IF wb = R(-1) THEN <<>>
         ELSE <<[ticker |-> "B", signal |-> "neutral", weight |-> wb]>>) :
        wa \in {R(-1), Zero, Rat(1, 100), Rat(1, 2), One},
        wb \in {R(-1), Zero, Rat(1, 2)}}
    \ {<<[ticker |-> "A", signal |-> "neutral", weight |-> One],
         [ticker |-> "B", signal |-> "neutral", weight |-> Rat(1, 2)]>>}

RebalanceInit ==
    /\ call_pc = "call"
    /\ call_args \in [cash : {Zero, One, R(100)},
                      positions : RebPositions,
                      signals : RebSignals,
                      prices : RebPrices,
                      commission : {Zero, Rat(1, 10)},
                      date : {1}]
    /\ call_result = <<>>
    /\ BacktestIdle
    /\ SchedIdle
    /\ OptIdle
    /\ FanIdle

\* trades = self._rebalance_portfolio(portfolio, signals, prices, date)
RebalanceCall ==
    /\ call_pc = "call"
    /\ call_result' = _rebalance_portfolio(call_args.cash, call_args.positions,
                                          call_args.signals, call_args.prices,
                                          call_args.commission, call_args.date)
    /\ call_pc' = "returned"
    /\ UNCHANGED call_args
    /\ UNCHANGED outsideCall

RebalanceNext == RebalanceCall

RebalanceSpec == RebalanceInit /\ [][RebalanceNext]_callVars

(***************************************************************************)
(* _get_momentum_signals on its own: two calls for the same tickers and    *)
(* the same date, on two price stores that hold the same prices up to the  *)
(* date and differ, if at all, in the prices dated after it.               *)
(***************************************************************************)
\* The rebalance date of the calls, as a day number.
MomDate == 130

\* Days of history after the rebalance date that a store may hold.
MomFuture == 5

\* The first day of the series of A: the rebalance date is then at the
\* 0-based position 129, 126, 125, 63, 62, 60 or 59 of the sorted days.
MomFirstDays == {MomDate - n : n \in {129, 126, 125, 63, 62, 60, 59}}

\* The close of A on day k <= MomDate: 25, then 50, then 100.
MomPast(k) ==
    IF k <= MomDate - 100 THEN R(25) ELSE IF k <= MomDate - 10 THEN R(50) ELSE R(100)

\* price_data: B quotes 100 on every day up to the date; A quotes from its
\* first day to `last`, MomPast up to the date and `close` after it, and
\* lacks the date itself when not `keyed`.
MomStore(first, keyed, last, close) ==
    [t \in {"A", "B"} |->
        IF t = "B" THEN [k \in 1..MomDate |-> R(100)]
        ELSE [k \in (first..last) \ (IF keyed THEN {} ELSE {MomDate}) |->
                 IF k <= MomDate THEN MomPast(k) ELSE close]]

\* The histories after the date: none, or 1 or MomFuture days at 100 or 200.
MomFutures ==
    {[last |-> MomDate, close |-> R(100)]}
    \cup [last : {MomDate + 1, MomDate + MomFuture}, close : {R(100), R(200)}]

MomentumInit ==
    /\ call_pc = "call"
    /\ \E first \in MomFirstDays, keyed \in BOOLEAN, f, g \in MomFutures :
          call_args = [k \in 1..2 |->
              [price_data |-> MomStore(first, keyed,
                                       IF k = 1 THEN f.last ELSE g.last,
                                       IF k = 1 THEN f.close ELSE g.close),
               tickers |-> <<"A", "B">>,
               date |-> MomDate]]
    /\ call_result = <<>>
    /\ BacktestIdle
    /\ SchedIdle
    /\ OptIdle
    /\ FanIdle

\* signals = self._get_momentum_signals(price_data, tickers, date): the
\* next of the two calls returns its signal map or raises IndexError.
MomentumCall ==
    /\ call_pc = "call"
    /\ LET a == call_args[Len(call_result) + 1]
       IN  call_result' = Append(call_result,
               IF MomentumSignalsRaise(a.price_data, a.tickers, a.date)
               THEN [raised |-> "IndexError", signals |-> <<>>]
               ELSE [raised |-> "",
                     signals |-> _get_momentum_signals(a.price_data, a.tickers, a.date)])
    /\ call_pc' = IF Len(call_result) + 1 = Len(call_args) THEN "returned" ELSE "call"
    /\ UNCHANGED call_args
    /\ UNCHANGED outsideCall

MomentumNext == MomentumCall

MomentumSpec == MomentumInit /\ [][MomentumNext]_callVars

(***************************************************************************)
(* The benchmark of run_backtest on its own: _fetch_benchmark_data, then   *)
(* the benchmark_value of the snapshot of every date of the loop (every    *)
(* date here has a ticker price, so every date gets its snapshot).         *)
(***************************************************************************)
\* The first day of the benchmark window, Fri 26 Jan 2024.
BenchStart == 26

\* Calendar days of the benchmark window.
BenchDays == 8

\* The close of the benchmark on the j-th scheduled date (0-based).
BenchClose(path, j) == IF path = "flat" THEN R(400) ELSE R(400 + 40 * j)

\* hist['Close'] of the benchmark: a close on every scheduled date of a set
\* of them (a date without a close is a holiday or a gap of the feed);
\* <<>> for an empty history or a fetch that raises.
BenchHistories(ds) ==
    {[d \in {ds[k] : k \in K} |->
        BenchClose(path, (CHOOSE k \in 1..Len(ds) : ds[k] = d) - 1)] :
        K \in SUBSET (1..Len(ds)), path \in {"flat", "rise"}}

\* The benchmark closes scaled to the initial capital at the first close;
\* an empty history makes iloc[0] raise, which is caught: {}.
_fetch_benchmark_data(hist, capital) ==
    IF DOMAIN hist = {} THEN <<>>
    ELSE LET first == CHOOSE d \in DOMAIN hist : \A e \in DOMAIN hist : d <= e
             initial_price == hist[first]
             shares == RDiv(capital, initial_price)
         IN  [d \in DOMAIN hist |-> RMul(hist[d], shares)]

\* benchmark_data.get(date, self.initial_capital)
BenchmarkValue(benchmark_data, date, capital) ==
    IF date \in DOMAIN benchmark_data THEN benchmark_data[date] ELSE capital

BenchmarkInit ==
    /\ call_pc = "fetch"
    /\ \E ds \in {_generate_dates(BenchStart, BenchStart + BenchDays - 1, "monthly")} :
          call_args \in [dates : {ds},
                         hist : BenchHistories(ds),
                         initial_capital : {R(100), R(100000)}]
    /\ call_result = <<>>
    /\ BacktestIdle
    /\ SchedIdle
    /\ OptIdle
    /\ FanIdle

\* benchmark_data = self._fetch_benchmark_data(start_date, end_date)
BenchmarkFetch ==
    /\ call_pc = "fetch"
    /\ call_result' = [benchmark_data |->
                          _fetch_benchmark_data(call_args.hist, call_args.initial_capital),
                      equity_curve |-> <<>>]
    /\ call_pc' = "loop"
    /\ UNCHANGED call_args
    /\ UNCHANGED outsideCall

\* The snapshot of the next date: its date and its benchmark fields.
BenchmarkSnapshot ==
    /\ call_pc = "loop"
    /\ Len(call_result.equity_curve) < Len(call_args.dates)
    /\ LET date == call_args.dates[Len(call_result.equity_curve) + 1]
           benchmark_value == BenchmarkValue(call_result.benchmark_data, date,
                                             call_args.initial_capital)
       IN  call_result' = [call_result EXCEPT !.equity_curve = Append(@,
               [date |-> date,
                benchmark_value |-> benchmark_value,
                benchmark_return |->
                    RDiv(RSub(benchmark_value, call_args.initial_capital),
                         call_args.initial_capital)])]
    /\ UNCHANGED <<call_pc, call_args>>
    /\ UNCHANGED outsideCall

\* The loop over the dates is exhausted.
BenchmarkReturn ==
    /\ call_pc = "loop"
    /\ Len(call_result.equity_curve) = Len(call_args.dates)
    /\ call_pc' = "returned"
    /\ UNCHANGED <<call_args, call_result>>
    /\ UNCHANGED outsideCall

BenchmarkNext == BenchmarkFetch \/ BenchmarkSnapshot \/ BenchmarkReturn

BenchmarkSpec == BenchmarkInit /\ [][BenchmarkNext]_callVars

(***************************************************************************)
(* The floats of _generate_consensus.  A float is [m, e], the value        *)
(* m x 2^e with 2^(FloatBits-1) <= m < 2^FloatBits (or m = 0): binary      *)
(* floating point, every operation rounded to the nearest float, ties to   *)
(* the even significand, as Python's float does with 53 bits.              *)
(***************************************************************************)
\* Bits of the significand.
FloatBits == 11

FZero == [m |-> 0, e |-> 0]

\* The number of bits of the positive integer n.
BitLength(n) == CHOOSE k \in 1..30 : 2 ^ (k - 1) <= n /\ n < 2 ^ k

\* The float nearest to M x 2^E.
RoundFloat(M, E) ==
    IF M = 0 THEN FZero
    ELSE LET k == BitLength(M) - FloatBits
         IN  IF k <= 0 THEN [m |-> M * 2 ^ (0 - k), e |-> E + k]
             ELSE LET q == M \div 2 ^ k
                      r == M % 2 ^ k
                      half == 2 ^ (k - 1)
                      up == r > half \/ (r = half /\ q % 2 = 1)
                      m == IF up THEN q + 1 ELSE q
                  IN  IF m = 2 ^ FloatBits
                      THEN [m |-> 2 ^ (FloatBits - 1), e |-> E + k + 1]
                      ELSE [m |-> m, e |-> E + k]

\* The significands of a and b over their common (least) exponent.
Aligned(a, b) ==
    LET e == IF a.e < b.e THEN a.e ELSE b.e
    IN  [a |-> a.m * 2 ^ (a.e - e), b |-> b.m * 2 ^ (b.e - e), e |-> e]

FAdd(a, b) ==
    IF a.m = 0 THEN b ELSE IF b.m = 0 THEN a
    ELSE RoundFloat(Aligned(a, b).a + Aligned(a, b).b, Aligned(a, b).e)

FLt(a, b) ==
    IF b.m = 0 THEN FALSE ELSE IF a.m = 0 THEN TRUE
    ELSE Aligned(a, b).a < Aligned(a, b).b

\* abs(a - b)
FAbsDiff(a, b) ==
    IF a.m = 0 THEN b ELSE IF b.m = 0 THEN a
    ELSE LET al == Aligned(a, b)
         IN  RoundFloat(IF al.a < al.b THEN al.b - al.a ELSE al.a - al.b, al.e)

FMul(a, b) == RoundFloat(a.m * b.m, a.e + b.e)

\* a / b for b # 0: the quotient of the significands to FloatBits + 2 bits
\* and one more bit that is 1 when the division left a remainder.
FDiv(a, b) ==
    IF a.m = 0 THEN FZero
    ELSE LET s == FloatBits + 2
             q == (a.m * 2 ^ s) \div b.m
             rest == (a.m * 2 ^ s) % b.m
         IN  RoundFloat(2 * q + (IF rest = 0 THEN 0 ELSE 1), a.e - b.e - s - 1)

\* float(n) of a non-negative integer, and the literal n / d.
FInt(n) == RoundFloat(n, 0)

FLit(n, d) == FDiv(FInt(n), FInt(d))

\* int(a) of a non-negative float.
FTrunc(a) ==
    IF a.e >= 0 THEN a.m * 2 ^ a.e
    ELSE IF 0 - a.e > 30 THEN 0
    ELSE a.m \div 2 ^ (0 - a.e)

(***************************************************************************)
(* _generate_consensus on its own: one call on the signals in the order of *)
(* INVESTMENT_AGENTS, one on the same signals in the order in which        *)
(* as_completed yielded them.                                              *)
(***************************************************************************)
\* The "weight" of the entries of INVESTMENT_AGENTS, in tenths.
AgentWeights == <<13, 12, 11, 9, 9, 10, 7, 10>>

\* agent_config.get("weight", 1.0) of the persona with that name.
AgentWeight(agent_name) ==
    IF agent_name \in DOMAIN AgentWeights THEN FLit(AgentWeights[agent_name], 10)
    ELSE FLit(10, 10)

\* The three sums of the first loop over the signals seen so far.
RECURSIVE WeightedSums(_, _)
WeightedSums(acc, signals) ==
    IF signals = <<>> THEN acc
    ELSE LET signal == Head(signals)
             weight == AgentWeight(signal.agent_name)
             conf == FDiv(FInt(signal.confidence), FInt(100))
         IN  WeightedSums(
                 [weighted_bullish |->
                      IF signal.signal = "bullish"
                      THEN FAdd(acc.weighted_bullish, FMul(weight, conf))
                      ELSE acc.weighted_bullish,
                  weighted_bearish |->
                      IF signal.signal = "bearish"
                      THEN FAdd(acc.weighted_bearish, FMul(weight, conf))
                      ELSE acc.weighted_bearish,
                  total_weight |-> FAdd(acc.total_weight, weight)],
                 Tail(signals))

\* min(95, n)
Min95(n) == IF n < 95 THEN n ELSE 95

\* The risks: one entry per bearish or neutral signal with a reasoning.
Risks(signals) ==
    LET risky == SelectSeq(signals, LAMBDA g :
                     g.signal \in {"bearish", "neutral"} /\ g.reasoning # "")
    IN  [k \in 1..Len(risky) |-> <<risky[k].agent_name, risky[k].reasoning>>]

\* weighted / total_weight if total_weight > 0 else 0
Score(weighted, total_weight) ==
    IF FLt(FZero, total_weight) THEN FDiv(weighted, total_weight) ELSE FZero

\* The branch the two scores select.
ConsensusSignal(bullish_score, bearish_score) ==
    IF FLt(bearish_score, bullish_score) /\ FLt(FLit(35, 100), bullish_score)
    THEN "bullish"
    ELSE IF FLt(bullish_score, bearish_score) /\ FLt(FLit(35, 100), bearish_score)
    THEN "bearish"
    ELSE "neutral"

\* The confidence that branch assigns.
ConsensusConfidence(consensus_signal, bullish_score, bearish_score) ==
    IF consensus_signal = "bullish"
    THEN Min95(FTrunc(FMul(bullish_score, FInt(100))))
    ELSE IF consensus_signal = "bearish"
    THEN Min95(FTrunc(FMul(bearish_score, FInt(100))))
    ELSE FTrunc(FAdd(FMul(FAbsDiff(FInt(1), FAbsDiff(bullish_score, bearish_score)),
                          FInt(50)),
                     FInt(25)))

Recommendation(consensus_signal, consensus_confidence) ==
    IF consensus_signal = "bullish" /\ consensus_confidence > 75
    THEN "Strong buy. Consider 8-12% position."
    ELSE IF consensus_signal = "bullish" THEN "Buy. Consider 5-8% position."
    ELSE IF consensus_signal = "neutral" THEN "Watchlist. Wait for better entry."
    ELSE "Avoid or reduce position."

\* return ConsensusResult(...): the fields that depend on the signals.
ConsensusResult(signals, risks, consensus_signal, consensus_confidence) ==
    [signal |-> consensus_signal,
     confidence |-> consensus_confidence,
     agreement |->
         [bullish |-> Len(SelectSeq(signals, LAMBDA g : g.signal = "bullish")),
          bearish |-> Len(SelectSeq(signals, LAMBDA g : g.signal = "bearish")),
          of |-> Len(signals)],
     agent_signals |-> signals,
     key_risks |-> IF risks = <<>> THEN <<"No major risks identified">>
                   ELSE SubSeq(risks, 1, IF Len(risks) < 5 THEN Len(risks) ELSE 5),
     recommendation |-> Recommendation(consensus_signal, consensus_confidence)]

\* The function from the two scores on.
ConsensusOfScores(signals, bullish_score, bearish_score) ==
    ConsensusResult(signals, Risks(signals),
                    ConsensusSignal(bullish_score, bearish_score),
                    ConsensusConfidence(ConsensusSignal(bullish_score, bearish_score),
                                        bullish_score, bearish_score))

\* The function from the sums of the first loop on.
ConsensusOfSums(signals, sums) ==
    ConsensusOfScores(signals, Score(sums.weighted_bullish, sums.total_weight),
                      Score(sums.weighted_bearish, sums.total_weight))

_generate_consensus(signals) ==
    ConsensusOfSums(signals,
        WeightedSums([weighted_bullish |-> FZero, weighted_bearish |-> FZero,
                      total_weight |-> FZero], signals))

\* What a persona may answer: bullish or bearish at 60, neutral at 50.
PersonaAnswers ==
    {[signal |-> "bullish", confidence |-> 60, reasoning |-> "answer"],
     [signal |-> "bearish", confidence |-> 60, reasoning |-> "answer"],
     [signal |-> "neutral", confidence |-> 50, reasoning |-> "answer"]}

\* The orders in which as_completed may yield the futures of the personas.
CompletionOrders ==
    {o \in [Personas -> Personas] : \A p, q \in Personas : o[p] = o[q] => p = q}

ConsensusInit ==
    /\ call_pc = "call"
    /\ \E answer \in [Personas -> PersonaAnswers], order \in CompletionOrders :
          call_args = [k \in 1..2 |->
              [signals |-> [j \in Personas |->
                  LET p == IF k = 1 THEN j ELSE order[j]
                  IN  AgentSignal(p, answer[p].signal, answer[p].confidence,
                                  answer[p].reasoning)]]]
    /\ call_result = <<>>
    /\ BacktestIdle
    /\ SchedIdle
    /\ OptIdle
    /\ FanIdle

\* return self._generate_consensus(ticker, signals, data_quality): the next
\* of the two calls.
ConsensusCall ==
    /\ call_pc = "call"
    /\ call_result' = Append(call_result,
           _generate_consensus(call_args[Len(call_result) + 1].signals))
    /\ call_pc' = IF Len(call_result) + 1 = Len(call_args) THEN "returned" ELSE "call"
    /\ UNCHANGED call_args
    /\ UNCHANGED outsideCall

ConsensusNext == ConsensusCall

ConsensusSpec == ConsensusInit /\ [][ConsensusNext]_callVars

(***************************************************************************)
(* A rebalance date of the ai_consensus strategy on its own, on a universe *)
(* of six tickers: signals = _get_ai_signals(tickers, date), then          *)
(* _rebalance_portfolio(portfolio, signals, prices, date).                 *)
(***************************************************************************)
AiUniverse == <<"A", "B", "C", "D", "E", "F">>

\* The portfolio before the date: all cash, or a holding of the first or of
\* the sixth ticker of the universe, or of both.
AiPositions ==
    {<<>>,
     <<[ticker |-> "A", shares |-> Rat(1, 2)]>>,
     <<[ticker |-> "F", shares |-> One]>>,
     <<[ticker |-> "A", shares |-> Rat(1, 2)], [ticker |-> "F", shares |-> One]>>}

\* Every ticker at 100 but the sixth, at 50 or without a price; a ticker
\* that is held has a price (it was bought at one and prices forward-fill).
AiPrices(pos) ==
    {[t \in Range(AiUniverse) |-> IF t = "F" THEN R(50) ELSE R(100)]}
    \cup (IF Held(pos, "F") THEN {}
          ELSE {[t \in Range(AiUniverse) \ {"F"} |-> R(100)]})

AiCapInit ==
    /\ call_pc = "signals"
    /\ \E pos \in AiPositions :
          call_args \in [tickers : {AiUniverse},
                         analysis : [Range(AiUniverse) -> Analyses],
                         cash : {R(100)},
                         positions : {pos},
                         prices : AiPrices(pos),
                         commission : {Zero, Rat(1, 10)},
                         date : {1}]
    /\ call_result = <<>>
    /\ BacktestIdle
    /\ SchedIdle
    /\ OptIdle
    /\ FanIdle

\* signals = self._get_ai_signals(tickers, date)
AiCapSignals ==
    /\ call_pc = "signals"
    /\ call_result' = [signals |-> _get_ai_signals(call_args.tickers, call_args.analysis),
                      portfolio |-> <<>>]
    /\ call_pc' = "rebalance"
    /\ UNCHANGED call_args
    /\ UNCHANGED outsideCall

\* new_trades = self._rebalance_portfolio(portfolio, signals, current_prices, date)
AiCapRebalance ==
    /\ call_pc = "rebalance"
    /\ call_result' = [call_result EXCEPT !.portfolio =
           _rebalance_portfolio(call_args.cash, call_args.positions, call_result.signals,
                                call_args.prices, call_args.commission, call_args.date)]
    /\ call_pc' = "returned"
    /\ UNCHANGED call_args
    /\ UNCHANGED outsideCall

AiCapNext == AiCapSignals \/ AiCapRebalance

AiCapSpec == AiCapInit /\ [][AiCapNext]_callVars

(***************************************************************************)
(* Properties                                                              *)
(***************************************************************************)
LegKinds(r) == {r.legs[k].kind : k \in 1..Len(r.legs)}

\* C1 (no negative cash): the cash of the portfolio is >= 0 in every state of
\* run_backtest, in every snapshot of the equity curve and after every leg of
\* every rebalance.
NoNegativeCash ==
    /\ RLe(Zero, cash)
    /\ \A k \in 1..Len(equity_curve) : RLe(Zero, equity_curve[k].cash)
    /\ \A k \in 1..Len(rebalances) :
          \A j \in 1..Len(rebalances[k].legs) : RLe(Zero, rebalances[k].legs[j].cash)

\* A rebalance at a positive commission rate in which a buy was executed, a
\* buy was rejected for lack of cash and a sell was executed.
NoNegativeCashWitness ==
    /\ RLt(Zero, commission)
    /\ \E k \in 1..Len(rebalances) :
          {"BUY", "BUY_REJECTED"} \subseteq LegKinds(rebalances[k])
    /\ \E k \in 1..Len(rebalances) :
          LegKinds(rebalances[k]) \cap {"SELL", "EXIT"} # {}

RECURSIVE DetailValues(_)
DetailValues(details) ==
    IF details = <<>> THEN Zero
    ELSE RAdd(Head(details).value, DetailValues(Tail(details)))

\* C2 (snapshot value conservation): in every snapshot of the equity curve,
\* total_value = cash + the sum of the values of the positions the snapshot
\* lists, and each listed value is shares x the price of that date.
SnapshotConservation ==
    \A k \in 1..Len(equity_curve) :
        LET s == equity_curve[k]
            prices == _get_prices_on_date(price_data, s.date)
        IN  /\ s.total_value = RAdd(s.cash, DetailValues(s.positions))
            /\ \A j \in 1..Len(s.positions) :
                  /\ s.positions[j].ticker \in DOMAIN prices
                  /\ s.positions[j].value =
                        RMul(s.positions[j].shares, prices[s.positions[j].ticker])

\* A snapshot that holds cash and two positions, at a price that differs
\* from the price they were bought at.
SnapshotConservationWitness ==
    \E k \in 1..Len(equity_curve) :
        /\ RLt(Zero, equity_curve[k].cash)
        /\ Len(equity_curve[k].positions) = 2
        /\ equity_curve[k].total_value # initial_capital
        /\ \E j \in 1..Len(trades) :
              /\ trades[j].ticker = equity_curve[k].positions[1].ticker
              /\ trades[j].price #
                    _get_prices_on_date(price_data, equity_curve[k].date)[trades[j].ticker]

\* The proceeds (net of commission) of the sell legs after leg a of rebalance r.
RECURSIVE LaterProceeds(_, _)
LaterProceeds(legs, a) ==
    IF a >= Len(legs) THEN Zero
    ELSE RAdd(IF legs[a + 1].kind \in {"SELL", "EXIT"}
              THEN RSub(legs[a + 1].amount, legs[a + 1].cost)
              ELSE Zero,
              LaterProceeds(legs, a + 1))

\* C3 (sells before buys): in every rebalance no sell leg (exit or reduce to
\* target) comes after a buy attempt, and no buy is rejected for lack of cash
\* that the later sells of the same rebalance would have covered.
SellsBeforeBuys ==
    \A k \in 1..Len(rebalances) :
        LET legs == rebalances[k].legs
        IN  /\ \A a, b \in 1..Len(legs) :
                  ~(a < b /\ legs[a].kind \in {"BUY", "BUY_REJECTED"}
                          /\ legs[b].kind \in {"SELL", "EXIT"})
            /\ \A a \in 1..Len(legs) :
                  legs[a].kind = "BUY_REJECTED" =>
                      RLt(RAdd(legs[a].cash, LaterProceeds(legs, a)),
                          RAdd(legs[a].amount, legs[a].cost))

\* Scenario A: one ticker at 100 on every scheduled date, the equal-weight
\* strategy, initial capital 100,000 and commission 0.1 %.
ScenarioA ==
    /\ tickers = <<"A">>
    /\ strategy = "equal_weight"
    /\ initial_capital = R(100000)
    /\ commission = Rat(1, 1000)
    /\ "A" \in DOMAIN price_data
    /\ \A k \in 1..Len(dates) :
          dates[k] \in DOMAIN price_data["A"] /\ price_data["A"][dates[k]] = R(100)

\* C4 (scenario A): the rebalance of the first date executes exactly one BUY
\* of the ticker and the run returns final_value = 100,000 x (1 - 0.001) =
\* 99,900.
ScenarioAResult ==
    ScenarioA =>
        /\ rebalances # <<>> =>
              /\ Len(rebalances[1].trades) = 1
              /\ rebalances[1].trades[1].action = "BUY"
              /\ rebalances[1].trades[1].ticker = "A"
        /\ pc # "raised"
        /\ pc = "returned" => result.final_value = R(99900)

\* C5 (only structural failures are fatal): once a snapshot was recorded the
\* run does not raise: with a non-empty equity curve _calculate_performance
\* returns a BacktestResult for every trade log.
ReturnsWheneverSnapshots == equity_curve # <<>> => pc # "raised"

\* C6 (weight normalization): the signal map of every strategy call has every
\* weight >= 0 and weights summing to <= 1.
WeightsNormalized ==
    \A k \in 1..Len(rebalances) :
        LET sigs == rebalances[k].signals
        IN  /\ \A j \in 1..Len(sigs) : RLe(Zero, sigs[j].weight)
            /\ RLe(RSum(Weights(sigs)), One)

\* C7 (drawdown bound): for a non-empty equity curve of positive total values
\* the max_drawdown of _calculate_performance is in [-1, 0].
DrawdownBound ==
    /\ (equity_curve # <<>> /\ \A k \in 1..Len(equity_curve) :
                                  RLt(Zero, equity_curve[k].total_value))
          => /\ RLe(R(-1), MaxDrawdown(Values(equity_curve)))
             /\ RLe(MaxDrawdown(Values(equity_curve)), Zero)
    /\ pc = "returned"
          => /\ RLe(R(-1), result.max_drawdown)
             /\ RLe(result.max_drawdown, Zero)

\* C8 (initial allocation): the date of the first snapshot is a rebalance
\* date: the portfolio is rebalanced on it.
FirstSnapshotRebalances ==
    equity_curve # <<>> =>
        \E k \in 1..Len(rebalances) : rebalances[k].date = equity_curve[1].date

\* The tickers of the universe with no entry in the price store.
Unpriced == Range(tickers) \ DOMAIN price_data

\* C9 (scenario D): a ticker with no entry in the price store gets no
\* non-zero weight from the strategy and is in no trade, and the run does not
\* abort while another ticker is priced.
MissingTickerIgnored ==
    \A t \in Unpriced :
        /\ \A k \in 1..Len(rebalances) :
              \A j \in 1..Len(rebalances[k].signals) :
                  rebalances[k].signals[j].ticker = t
                      => rebalances[k].signals[j].weight = Zero
        /\ \A j \in 1..Len(trades) : trades[j].ticker # t
        /\ DOMAIN price_data # {} => pc # "raised"

\* The weight the signals give ticker t (0 when they do not name it).
SignalWeight(sigs, t) ==
    IF \E j \in 1..Len(sigs) : sigs[j].ticker = t
    THEN sigs[CHOOSE j \in 1..Len(sigs) : sigs[j].ticker = t].weight
    ELSE Zero

\* shares x price / total portfolio value before rebalance r (0 when unheld).
CurrentWeight(r, t) ==
    IF Held(r.positions_before, t) /\ t \in DOMAIN r.prices
    THEN RDiv(RMul(SharesOf(r.positions_before, t), r.prices[t]),
              RAdd(r.cash_before, PositionsValue(r.positions_before, r.prices)))
    ELSE Zero

OnTarget(r) ==
    \A t \in Range(tickers) \cup Range(Keys(r.positions_before)) :
        SignalWeight(r.signals, t) = CurrentWeight(r, t)

\* C10 (materiality no-op): a rebalance in which the target weight of every
\* ticker equals its current weight emits no trade and leaves cash and
\* positions unchanged.
MaterialityNoOp ==
    \A k \in 1..Len(rebalances) :
        OnTarget(rebalances[k]) =>
            /\ rebalances[k].trades = <<>>
            /\ rebalances[k].cash_after = rebalances[k].cash_before
            /\ rebalances[k].positions_after = rebalances[k].positions_before

\* A rebalance of a portfolio that holds two positions, each exactly on its
\* (positive) target weight.
MaterialityNoOpWitness ==
    \E k \in 1..Len(rebalances) :
        /\ OnTarget(rebalances[k])
        /\ Len(rebalances[k].positions_before) = 2
        /\ Len(rebalances[k].targets) = 2

\* Scenario B: two tickers at 100 and 50 on every scheduled date, the
\* equal-weight strategy (targets 0.5 / 0.5), initial capital 10,000 and
\* commission 0.
ScenarioB ==
    /\ tickers = <<"A", "B">>
    /\ strategy = "equal_weight"
    /\ initial_capital = R(10000)
    /\ commission = Zero
    /\ DOMAIN price_data = {"A", "B"}
    /\ \A k \in 1..Len(dates) :
          /\ dates[k] \in DOMAIN price_data["A"] /\ price_data["A"][dates[k]] = R(100)
          /\ dates[k] \in DOMAIN price_data["B"] /\ price_data["B"][dates[k]] = R(50)

\* C11 (scenario B): the rebalance of the first date emits exactly two
\* trades, BUY 50 shares of the first ticker (value 5,000) and BUY 100 shares
\* of the second (value 5,000), and leaves cash = 0.
ScenarioBTrades ==
    (ScenarioB /\ rebalances # <<>>) =>
        LET r == rebalances[1]
        IN  /\ r.date = dates[1]
            /\ Len(r.trades) = 2
            /\ r.trades[1].action = "BUY" /\ r.trades[1].ticker = "A"
            /\ r.trades[1].shares = R(50) /\ r.trades[1].value = R(5000)
            /\ r.trades[2].action = "BUY" /\ r.trades[2].ticker = "B"
            /\ r.trades[2].shares = R(100) /\ r.trades[2].value = R(5000)
            /\ r.cash_after = Zero
            /\ cash = Zero

\* Scenario B after the rebalance of its first date.
ScenarioBWitness ==
    /\ ScenarioB
    /\ Len(rebalances) = 1
    /\ Len(equity_curve) = 1

\* The dates an evaluation of the scheduler flagged.
Triggers(run) == {run.dates[k] : k \in {j \in 1..Len(run.dates) : run.flags[j]}}

\* Scenario C: frequency monthly over 2024-01-01 .. 2024-03-31.
ScenarioC == sch_start = 1 /\ sch_end = 91 /\ sch_freq = "monthly"

\* C12 (scenario C): monthly over 2024-01-01 .. 2024-03-31 the scheduler
\* flags exactly 3 rebalance trigger dates, one in each of January, February
\* and March (of the 65 business days of the span).
ScenarioCTriggers ==
    (ScenarioC /\ sch_runs # <<>>) =>
        LET run == sch_runs[1]
        IN  /\ Len(run.dates) = 65
            /\ Len(run.flags) = Len(run.dates)
            /\ Cardinality(Triggers(run)) = 3
            /\ \A m \in {1, 2, 3} :
                  Cardinality({d \in Triggers(run) : MonthOf(d) = m}) = 1

\* Scenario C, evaluated to its end.
ScenarioCWitness == ScenarioC /\ sch_runs # <<>> /\ Triggers(sch_runs[1]) = {1, 32, 61}

NoPricedDate ==
    \A k \in 1..Len(dates) : DOMAIN _get_prices_on_date(price_data, dates[k]) = {}

\* C13 (empty result is fatal): when no ticker yields price data, or no
\* scheduled date has a price for any ticker (the equity curve is empty),
\* run_backtest raises and returns no BacktestResult.
EmptyResultFatal ==
    /\ (DOMAIN price_data = {} /\ pc \notin {"idle", "fetch"})
          => pc = "raised" /\ error = "ValueError" /\ result = <<>>
    /\ (NoPricedDate /\ pc \in {"returned", "raised"})
          => pc = "raised" /\ error = "ValueError" /\ result = <<>>
    /\ NoPricedDate => equity_curve = <<>>
    /\ pc = "returned" => equity_curve # <<>> /\ result # <<>>

\* A run with price data, none of it at or before a scheduled date, that
\* went through every date and raised.
EmptyResultFatalWitness ==
    /\ DOMAIN price_data # {}
    /\ NoPricedDate
    /\ i > Len(dates)
    /\ pc = "raised"

\* The dates looked up: every calendar day from the eve of the first
\* scheduled date to two days after the last.
LookupDates ==
    IF dates = <<>> THEN {} ELSE (dates[1] - 1)..(dates[Len(dates)] + 2)

\* The dates of the series of ticker t at or before date.
AtOrBefore(t, date) == {d \in DOMAIN price_data[t] : d <= date}

\* C14 (forward-fill lookup): for every ticker and date _get_prices_on_date
\* returns the price of the latest series date <= the requested date, and
\* omits the ticker when the series has no date <= the requested date.
ForwardFillLookup ==
    \A date \in LookupDates :
        LET prices == _get_prices_on_date(price_data, date)
        IN  /\ DOMAIN prices \subseteq DOMAIN price_data
            /\ \A t \in DOMAIN price_data :
                  IF AtOrBefore(t, date) = {}
                  THEN t \notin DOMAIN prices
                  ELSE /\ t \in DOMAIN prices
                       /\ \E d \in AtOrBefore(t, date) :
                             /\ \A e \in AtOrBefore(t, date) : e <= d
                             /\ prices[t] = price_data[t][d]

\* The run looked up a scheduled date that ticker A does not quote, between
\* two quotes of different prices, and a date before the first quote of A.
ForwardFillLookupWitness ==
    /\ pc = "loop"
    /\ "A" \in DOMAIN price_data
    /\ \E k \in 1..Len(dates) :
          /\ k < i
          /\ dates[k] \notin DOMAIN price_data["A"]
          /\ \E d, e \in DOMAIN price_data["A"] :
                d < dates[k] /\ dates[k] < e /\ price_data["A"][d] # price_data["A"][e]
    /\ AtOrBefore("A", dates[1]) = {}

\* The run went through every date, recorded a snapshot and every daily
\* return of its equity curve is exactly 0.
AllReturnsZero ==
    /\ pc \in {"returned", "raised"}
    /\ i > Len(dates)
    /\ equity_curve # <<>>
    /\ ~DailyReturnsRaise(Values(equity_curve))
    /\ \A k \in 1..(Len(equity_curve) - 1) :
          DailyReturns(Values(equity_curve))[k] = Zero

\* C15 (zero-volatility Sharpe): when every daily return of the equity curve
\* is exactly 0, _calculate_performance returns a result with volatility 0
\* and sharpe_ratio 0; it does not raise.
ZeroVolatilitySharpe ==
    AllReturnsZero =>
        /\ pc = "returned"
        /\ result.volatility = Zero
        /\ result.sharpe_ratio = Zero

\* C17 (optimizer position caps): every weight _optimize_weights returns,
\* and every asset weight of the built portfolio, is in
\* [min_position, max_position].
WeightsWithinCaps ==
    /\ opt_pc \in {"assets", "returned"} =>
          \A k \in 1..Len(opt_weights) :
              RLe(opt_min, opt_weights[k]) /\ RLe(opt_weights[k], opt_max)
    /\ opt_pc = "returned" =>
          \A k \in 1..Len(opt_result.assets) :
              /\ RLe(opt_min, opt_result.assets[k].weight)
              /\ RLe(opt_result.assets[k].weight, opt_max)

\* The positions, in opt_tickers, of the tickers whose analysis succeeds.
Analysable == {k \in 1..Len(opt_tickers) : opt_outcome[opt_tickers[k]].signal # "error"}

\* C18 (InsufficientAssets): build_portfolio raises, and returns no
\* PortfolioAnalysis, whenever fewer than 2 of the tickers are successfully
\* analysed; an analysis that fails is absorbed: the loop goes on to the
\* last ticker and nothing is raised before its end.
InsufficientAssetsRaises ==
    /\ (opt_pc \in {"assets", "returned", "raised"} /\ Cardinality(Analysable) < 2)
          => opt_pc = "raised" /\ opt_error = "ValueError" /\ opt_result = <<>>
    /\ opt_pc = "raised" => opt_k = Len(opt_tickers) + 1
    /\ opt_pc \in {"assets", "returned", "raised"}
          => Len(opt_analyses) = Cardinality(Analysable)
    /\ opt_pc = "raised" => opt_result = <<>>

\* A call that raised for one analysed ticker out of three, the analysis of
\* the first of which failed.
InsufficientAssetsWitness ==
    /\ opt_pc = "raised"
    /\ Len(opt_tickers) = 3
    /\ 1 \notin Analysable
    /\ Cardinality(Analysable) = 1
    /\ Len(opt_analyses) = 1

\* The signals of persona p in the list signals.
SignalsOf(p) == SelectSeq(fan_signals, LAMBDA g : g.agent_name = p)

\* The task of persona p failed (an error or its timeout).
TaskFailed(p) == fan_future[p] # <<>> /\ fan_future[p].reasoning = "Failed"

\* C19 (persona fan-out completeness): whatever the outcomes and the order
\* of completion, _run_subagents returns exactly one AgentSignal per persona,
\* and the signal of a persona whose task failed is neutral with confidence 0.
FanoutOnePerPersona ==
    fan_pc \in {"returned", "consensus"} =>
        /\ Len(fan_signals) = NumPersonas
        /\ \A p \in Personas :
              /\ Len(SignalsOf(p)) = 1
              /\ TaskFailed(p) =>
                    /\ SignalsOf(p)[1].signal = "neutral"
                    /\ SignalsOf(p)[1].confidence = 0

\* The task of persona p has run to its end.
TaskDone(p) == fan_pc # "submit" /\ fan_task[p] = "done"

\* C20 (persona fan-out termination): while the call of one persona is slow
\* the tasks of all the others run to completion; once every call has ended
\* _run_subagents returns and the consensus is computed; the signals are
\* returned, and the consensus starts, only after every task has finished.
FanoutTerminates ==
    /\ [](fan_pc \in {"returned", "consensus"} => \A p \in Personas : TaskDone(p))
    /\ \A q \in Personas \ {1} : <>TaskDone(q)
    /\ (<>TaskDone(1)) => <>(fan_pc = "consensus")

\* The consensus was reached after a call that failed, and the task of the
\* last persona, which had to wait for a worker, was yielded first.
FanoutTerminatesWitness ==
    /\ fan_pc = "consensus"
    /\ \E p \in Personas : TaskFailed(p)
    /\ fan_signals[1].agent_name = NumPersonas

\* The cash of the portfolio when leg j of rebalance r starts.
CashBeforeLeg(r, j) == IF j = 1 THEN r.cash_before ELSE r.legs[j - 1].cash

\* The legs of the second loop of rebalance r, one per target it reached.
TargetLegs(r) == SelectSeq(r.legs, LAMBDA g : g.kind # "EXIT")

\* Leg j of rebalance r is a buy whose cost exceeds the cash available.
Unaffordable(r, j) ==
    /\ r.legs[j].kind \in {"BUY", "BUY_REJECTED"}
    /\ RLt(CashBeforeLeg(r, j), RAdd(r.legs[j].amount, r.legs[j].cost))

\* C21 (rejected buy leaves state unchanged): a buy leg whose cost (delta +
\* commission) exceeds the available cash is not executed: the cash and the
\* share count of its ticker are unchanged and no trade is emitted for it;
\* the remaining targets of the rebalance still get their leg and the run
\* goes on to the next date.
RejectedBuyNoEffect ==
    \A k \in 1..Len(rebalances) :
        LET r == rebalances[k]
        IN  /\ \A j \in 1..Len(r.legs) :
                  Unaffordable(r, j) =>
                      /\ r.legs[j].kind = "BUY_REJECTED"
                      /\ r.legs[j].cash = CashBeforeLeg(r, j)
                      /\ SharesOf(r.positions_after, r.legs[j].ticker) =
                            SharesOf(r.positions_before, r.legs[j].ticker)
                      /\ Held(r.positions_after, r.legs[j].ticker) =
                            Held(r.positions_before, r.legs[j].ticker)
                      /\ \A n \in 1..Len(r.trades) :
                            r.trades[n].ticker # r.legs[j].ticker
            /\ Len(TargetLegs(r)) = Len(r.targets)
            /\ \A n \in 1..Len(r.targets) :
                  TargetLegs(r)[n].ticker = r.targets[n].ticker
            /\ i > r.index + 1
            /\ (pc = "raised" /\ k = Len(rebalances)) =>
                  (i > Len(dates) \/ error = "IndexError")

\* A rebalance whose first target was a buy rejected for lack of cash and
\* whose second target was traded, on a date that is not the last; the run
\* recorded the snapshot of the next date.
RejectedBuyNoEffectWitness ==
    \E k \in 1..Len(rebalances) :
        LET r == rebalances[k]
        IN  /\ \E j \in 1..(Len(r.legs) - 1) :
                  /\ Unaffordable(r, j)
                  /\ r.legs[j + 1].kind \in {"BUY", "SELL"}
            /\ \E n \in 1..Len(equity_curve) : equity_curve[n].date > r.date

\* The call of _rebalance_portfolio has returned.
Rebalanced == call_pc = "returned" /\ call_result # <<>>

\* The call, as a record of the rebalance log of a run.
TheCall ==
    [cash_before |-> call_args.cash,
     positions_before |-> call_args.positions,
     prices |-> call_args.prices,
     legs |-> call_result.legs,
     trades |-> call_result.trades,
     cash_after |-> call_result.cash,
     positions_after |-> call_result.pos]

\* The signals give ticker t no positive weight.
NotTargeted(t) ==
    \A k \in 1..Len(call_args.signals) :
        call_args.signals[k].ticker = t => ~RLt(Zero, call_args.signals[k].weight)

\* The trades of the call for ticker t.
TradesOf(t) == SelectSeq(call_result.trades, LAMBDA tr : tr.ticker = t)

\* C22 (exit pass): after _rebalance_portfolio every ticker that was held,
\* is priced and has no positive target weight is out of positions, exactly
\* one trade was emitted for it, a SELL of its full share count at the
\* date's price with commission = commission_rate x proceeds, and the cash
\* was credited proceeds - commission; a held ticker with no price keeps its
\* shares and gets no trade.
ExitPassLiquidates ==
    Rebalanced =>
        \A t \in Range(Keys(call_args.positions)) :
            LET shares == SharesOf(call_args.positions, t)
            IN  IF t \notin DOMAIN call_args.prices
                THEN /\ Held(call_result.pos, t)
                     /\ SharesOf(call_result.pos, t) = shares
                     /\ TradesOf(t) = <<>>
                ELSE NotTargeted(t) =>
                     LET price == call_args.prices[t]
                         proceeds == RMul(shares, price)
                         fee == RMul(call_args.commission, proceeds)
                     IN  /\ ~Held(call_result.pos, t)
                         /\ Len(TradesOf(t)) = 1
                         /\ TradesOf(t)[1].action = "SELL"
                         /\ TradesOf(t)[1].shares = shares
                         /\ TradesOf(t)[1].price = price
                         /\ TradesOf(t)[1].value = proceeds
                         /\ TradesOf(t)[1].commission = fee
                         /\ \E j \in 1..Len(call_result.legs) :
                               /\ call_result.legs[j].ticker = t
                               /\ call_result.legs[j].cash =
                                     RAdd(CashBeforeLeg(TheCall, j), RSub(proceeds, fee))

\* A call at a positive commission rate on two held tickers: one priced and
\* given weight 0, which was sold, the other without a price.
ExitPassLiquidatesWitness ==
    /\ Rebalanced
    /\ RLt(Zero, call_args.commission)
    /\ Len(call_args.positions) = 2
    /\ \E t \in DOMAIN call_args.prices :
          /\ Held(call_args.positions, t)
          /\ \E k \in 1..Len(call_args.signals) :
                call_args.signals[k].ticker = t /\ call_args.signals[k].weight = Zero
          /\ Len(TradesOf(t)) = 1
    /\ \E t \in Range(Keys(call_args.positions)) : t \notin DOMAIN call_args.prices

\* total_value of the call: the cash plus the priced holdings, before any leg.
CallTotal == RAdd(call_args.cash, PositionsValue(call_args.positions, call_args.prices))

\* The positive weight the signals of the call give the priced ticker t.
CallWeight(t) ==
    call_args.signals[CHOOSE k \in 1..Len(call_args.signals) :
                          call_args.signals[k].ticker = t].weight

\* delta = total_value x weight - current value of ticker t.
CallDelta(t) ==
    RSub(RMul(CallTotal, CallWeight(t)),
         RMul(SharesOf(call_args.positions, t), call_args.prices[t]))

\* 1 % x total_value
CallThreshold == RMul(Rat(1, 100), CallTotal)

\* Leg j of the call, a leg of the second loop, was traded, short of a buy
\* that the cash before it does not cover.
TradedOrNoCash(j) ==
    LET leg == call_result.legs[j]
    IN  \/ leg.kind \in {"BUY", "SELL"} /\ Len(TradesOf(leg.ticker)) = 1
        \/ /\ leg.kind = "BUY_REJECTED"
           /\ RLt(CashBeforeLeg(TheCall, j), RAdd(leg.amount, leg.cost))

\* C23 (materiality threshold boundary): a leg of the rebalance pass is
\* skipped exactly when |delta| < 1 % x total_value; a leg with
\* |delta| >= 1 % x total_value, equality included, is traded, subject only
\* to the cash check for buys.
SkipsBelowThreshold ==
    Rebalanced =>
        \A j \in 1..Len(call_result.legs) :
            LET leg == call_result.legs[j]
            IN  leg.kind # "EXIT" =>
                    IF RLt(RAbs(CallDelta(leg.ticker)), CallThreshold)
                    THEN leg.kind = "SKIP" /\ TradesOf(leg.ticker) = <<>>
                    ELSE TradedOrNoCash(j)

\* C23 as amended: a leg is skipped exactly when |delta| <= 1 % x
\* total_value, equality included; a leg with |delta| > 1 % x total_value
\* is traded, subject only to the cash check for buys.
SkipsUpToThreshold ==
    Rebalanced =>
        /\ Len(TargetLegs(TheCall)) =
              Len(TargetAllocations(call_args.signals, call_args.prices))
        /\ \A j \in 1..Len(call_result.legs) :
              LET leg == call_result.legs[j]
              IN  leg.kind # "EXIT" =>
                      IF RLe(RAbs(CallDelta(leg.ticker)), CallThreshold)
                      THEN leg.kind = "SKIP" /\ TradesOf(leg.ticker) = <<>>
                      ELSE TradedOrNoCash(j)

\* A call with a leg whose |delta| is exactly 1 % of a positive total value
\* and a leg above the threshold that was traded.
SkipsUpToThresholdWitness ==
    /\ Rebalanced
    /\ RLt(Zero, CallTotal)
    /\ \E j, n \in 1..Len(call_result.legs) :
          /\ call_result.legs[j].kind = "SKIP"
          /\ RAbs(CallDelta(call_result.legs[j].ticker)) = CallThreshold
          /\ call_result.legs[n].kind \in {"BUY", "SELL"}

\* The two calls of _get_momentum_signals are over.
MomentumCompared == call_pc = "returned" /\ Len(call_result) = 2 /\ Len(call_args) = 2

\* C24 (momentum is causal): the momentum weights computed at rebalance
\* date d depend only on the prices dated at or before d: two price stores
\* that agree on every price dated <= d give the same signal map, wherever d
\* lies in the series and also when d is not a key of it.
MomentumCausal ==
    MomentumCompared =>
        /\ call_result[1].raised = call_result[2].raised
        /\ call_result[1].signals = call_result[2].signals

\* The trades of the run dated strictly before date d.
TradesBefore(d) == SelectSeq(trades, LAMBDA tr : tr.date < d)

\* The cash a trade log leaves of the initial capital.
RECURSIVE CashAfterTrades(_, _)
CashAfterTrades(c, trs) ==
    IF trs = <<>> THEN c
    ELSE CashAfterTrades(
             IF Head(trs).action = "BUY"
             THEN RSub(c, RAdd(Head(trs).value, Head(trs).commission))
             ELSE RAdd(c, RSub(Head(trs).value, Head(trs).commission)),
             Tail(trs))

\* The shares of ticker t a trade log leaves of a holding of s shares.
RECURSIVE SharesAfterTrades(_, _, _)
SharesAfterTrades(s, t, trs) ==
    IF trs = <<>> THEN s
    ELSE SharesAfterTrades(
             IF Head(trs).ticker # t THEN s
             ELSE IF Head(trs).action = "BUY" THEN RAdd(s, Head(trs).shares)
             ELSE RSub(s, Head(trs).shares),
             t, Tail(trs))

\* The shares of ticker t a snapshot lists (0 when it does not list t).
ListedShares(details, t) ==
    IF \E j \in 1..Len(details) : details[j].ticker = t
    THEN details[CHOOSE j \in 1..Len(details) : details[j].ticker = t].shares
    ELSE Zero

\* C25 (snapshot precedes same-day rebalance): the snapshot of every date d
\* holds the cash and the shares that exactly the trades dated strictly
\* before d leave of the initial capital: it is recorded before the
\* rebalance of d.  The trades of the last date are in no snapshot, and
\* final_value is the total value of the last snapshot.
SnapshotBeforeRebalance ==
    /\ \A k \in 1..Len(equity_curve) :
          LET s == equity_curve[k]
              before == TradesBefore(s.date)
          IN  /\ s.cash = CashAfterTrades(initial_capital, before)
              /\ \A t \in Range(tickers) :
                    ListedShares(s.positions, t) = SharesAfterTrades(Zero, t, before)
              /\ \A n \in 1..Len(rebalances) :
                    rebalances[n].date = s.date =>
                        /\ s.cash = rebalances[n].cash_before
                        /\ s.total_value =
                              _calculate_portfolio_value(rebalances[n].cash_before,
                                  rebalances[n].positions_before, rebalances[n].prices)
    /\ pc = "returned" => result.final_value = equity_curve[Len(equity_curve)].total_value

\* A run that returned after a rebalance on its last date which traded at a
\* positive commission: the value of the portfolio it left differs from
\* final_value.
SnapshotBeforeRebalanceWitness ==
    /\ pc = "returned"
    /\ RLt(Zero, commission)
    /\ rebalances # <<>>
    /\ LET r == rebalances[Len(rebalances)]
       IN  /\ r.date = dates[Len(dates)]
           /\ r.trades # <<>>
           /\ equity_curve[Len(equity_curve)].date = r.date
           /\ result.final_value #
                 _calculate_portfolio_value(r.cash_after, r.positions_after, r.prices)

\* The sum of the commissions of a trade list.
RECURSIVE Commissions(_)
Commissions(trs) ==
    IF trs = <<>> THEN Zero ELSE RAdd(Head(trs).commission, Commissions(Tail(trs)))

\* C26 (conservation of value across a rebalance): for every call of
\* _rebalance_portfolio the value of the portfolio after the call, at the
\* prices of the call, is its value before the call minus the sum of the
\* commissions of the trades the call emitted.
RebalanceConservesValue ==
    Rebalanced =>
        _calculate_portfolio_value(call_result.cash, call_result.pos, call_args.prices)
            = RSub(_calculate_portfolio_value(call_args.cash, call_args.positions,
                                              call_args.prices),
                   Commissions(call_result.trades))

\* The dates of the benchmark quotes at or before date d.
QuotedAtOrBefore(d) == {e \in DOMAIN call_result.benchmark_data : e <= d}

\* C27 (benchmark forward-fill): the benchmark_value of the snapshot of a
\* date without a benchmark quote is the latest benchmark value at or before
\* that date, not the initial capital.
BenchmarkForwardFill ==
    call_pc \in {"loop", "returned"} =>
        \A k \in 1..Len(call_result.equity_curve) :
            LET s == call_result.equity_curve[k]
            IN  (s.date \notin DOMAIN call_result.benchmark_data
                 /\ QuotedAtOrBefore(s.date) # {})
                    => \E e \in QuotedAtOrBefore(s.date) :
                          /\ \A f \in QuotedAtOrBefore(s.date) : f <= e
                          /\ s.benchmark_value = call_result.benchmark_data[e]

\* C28 (consensus is independent of completion order): for a fixed multiset
\* of persona signals the signal, the confidence, the agreement counts and
\* the recommendation of _generate_consensus are the same for every order
\* in which the persona tasks complete.
ConsensusOrderIndependent ==
    (call_pc = "returned" /\ Len(call_result) = 2) =>
        /\ call_result[1].signal = call_result[2].signal
        /\ call_result[1].confidence = call_result[2].confidence
        /\ call_result[1].agreement = call_result[2].agreement
        /\ call_result[1].recommendation = call_result[2].recommendation

\* The tickers at position six or later of the universe of the call.
BeyondCap == {call_args.tickers[k] : k \in 6..Len(call_args.tickers)}

WeekendFirstMonths == {m \in 1..12 : WeekdayOf(DaysBefore(m) + 1) >= 5}

\* The calendar months an evaluation has a scheduled date in.
MonthsSpanned(run) == {MonthOf(run.dates[k]) : k \in 1..Len(run.dates)}

\* C30 as stated (monthly trigger rule): under the monthly frequency a date
\* at index > 0 is a rebalance trigger if and only if its day of month is
\* 01, and a calendar month whose first day is a weekend has no rebalance
\* trigger at all.
MonthlyWeekendMonthNoTrigger ==
    sch_freq = "monthly" =>
        \A n \in 1..Len(sch_runs) :
            LET run == sch_runs[n]
            IN  /\ \A k \in 2..Len(run.dates) :
                      run.flags[k] <=> DayOf(run.dates[k]) = 1
                /\ \A m \in WeekendFirstMonths :
                      {d \in Triggers(run) : MonthOf(d) = m} = {}

\* C30 (monthly trigger rule): under the monthly frequency a date at index
\* > 0 is a rebalance trigger if and only if its day of month is 01; so a
\* calendar month whose first day is a weekend has no trigger among its
\* dates at index > 0, and no trigger at all when the range has a scheduled
\* date before it (index 0, the initial allocation, is a trigger whatever
\* its date is).
MonthlyTriggerRule ==
    sch_freq = "monthly" =>
        \A n \in 1..Len(sch_runs) :
            LET run == sch_runs[n]
            IN  /\ Len(run.flags) = Len(run.dates)
                /\ \A k \in 2..Len(run.dates) :
                      run.flags[k] <=> DayOf(run.dates[k]) = 1
                /\ \A m \in WeekendFirstMonths :
                      /\ \A k \in 2..Len(run.dates) :
                            MonthOf(run.dates[k]) = m => ~run.flags[k]
                      /\ (run.dates # <<>> /\ MonthOf(run.dates[1]) # m)
                            => {d \in Triggers(run) : MonthOf(d) = m} = {}

\* Monthly over 2024-01-01 .. 2024-06-04: six calendar months, five triggers
\* (the 1st of January to May), none on the two scheduled dates of June,
\* whose 1st is a Saturday.
MonthlyTriggerRuleWitness ==
    /\ sch_freq = "monthly" /\ sch_start = 1 /\ sch_end = 156
    /\ sch_runs # <<>>
    /\ Triggers(sch_runs[1]) = {1, 32, 61, 92, 122}
    /\ {d \in Range(sch_runs[1].dates) : MonthOf(d) = 6} = {155, 156}
    /\ Cardinality(Triggers(sch_runs[1])) < Cardinality(MonthsSpanned(sch_runs[1]))

=============================================================================
